---- MODULE Spec2Model ----
(***************************************************************************)
(* State-machine model of the soulbound-token contracts:                   *)
(*   IssuerRegistry, SBTTemplate, SBTSession and SBTToken (template and    *)
(*   session based ledger).                                                *)
(* Every external function is one atomic action: the EVM executes one      *)
(* transaction at a time and a failed require reverts the whole call, so a *)
(* call that fails is a call whose action is not enabled.                  *)
(* Recipients are externally owned accounts (no receive callback), except  *)
(* in SpecReentrant, where u2 is a contract whose receive hook calls back. *)
(***************************************************************************)
EXTENDS Integers, Sequences, FiniteSets, TLC

\* ---------------------------------------------------------------- bounds
MaxTemplates == 2
MaxLedgerTemplates == 1
MaxSessions == 2
MaxTokens == 3
MaxTime == 2
MaxMints == 2
MaxBatch == 2
MaxClockSessions == 1
MaxPauseTokens == 1
MaxIssuerTokens == 2
MaxDuration == 2
MaxUriTokens == 4

\* ------------------------------------------------------------- constants
BatchLimit == 100

\* ------------------------------------------------------------ identities
Zero == "0x0"
Admin == "admin"
IssuerB == "issuerB"
Users == {"u1", "u2"}
Ledger == "SBTToken"
Addrs == {Admin, IssuerB} \cup Users
Recipients == Users \cup {Zero}

NoSession == 0
TemplateIds == 1..MaxTemplates
SessionIds == 1..MaxSessions
TokenIds == 1..MaxTokens
UriTokenIds == 1..MaxUriTokens

VARIABLES
    \* IssuerRegistry
    issuers, issuerAddresses, registryPaused,
    \* SBTTemplate
    templateIdCounter, templates, templatePaused,
    \* SBTSession
    sessions, sessionNonce, sbtTokenContract, sessionPaused,
    \* SBTToken
    nextTokenId, tokenOwner, sbtData, hasTokenFromTemplate, hasTokenFromSession,
    tokenPaused,
    \* ERC721 approvals of SBTToken
    tokenApprovals, operatorApprovals,
    \* SBTToken, URI-based ledger
    uriNextTokenId, uriOwners, tokenURIs, tokenIssuer, tokenRevoked,
    hasTokenFromIssuer, uriPaused,
    \* ReentrancyGuard of SBTToken and the mint call in progress
    _status, frame,
    \* block.timestamp
    now

registryVars == <<issuers, issuerAddresses, registryPaused>>
templateVars == <<templateIdCounter, templates, templatePaused>>
sessionVars == <<sessions, sessionNonce, sbtTokenContract, sessionPaused>>
tokenVars == <<nextTokenId, tokenOwner, sbtData, hasTokenFromTemplate,
               hasTokenFromSession, tokenPaused>>
approvalVars == <<tokenApprovals, operatorApprovals>>
uriVars == <<uriNextTokenId, uriOwners, tokenURIs, tokenIssuer, tokenRevoked,
             hasTokenFromIssuer, uriPaused>>
guardVars == <<_status, frame>>
vars == <<registryVars, templateVars, sessionVars, tokenVars, approvalVars,
         uriVars, guardVars, now>>

\* ReentrancyGuard
NOT_ENTERED == "NOT_ENTERED"
ENTERED == "ENTERED"
\* No mint call is in progress.
NoFrame == [fn |-> "none"]

\* ------------------------------------------------------- default records
NoIssuer == [name |-> "", organization |-> "", authorized |-> FALSE]
NoTemplate == [templateId |-> 0, name |-> "", description |-> "",
               issuer |-> Zero, active |-> FALSE]
EmptySession == [sessionId |-> NoSession, templateId |-> 0, maxMints |-> 0,
                 currentMints |-> 0, endTimestamp |-> 0, issuer |-> Zero,
                 active |-> FALSE, title |-> ""]
NoSBTData == [name |-> "", description |-> "", issuer |-> Zero,
              templateId |-> 0, sessionId |-> NoSession, revoked |-> FALSE]

\* ========================================================= IssuerRegistry
\* Membership of the enumeration list in place of the flag.
isAuthorizedIssuer_Listed(issuer) ==
    \E i \in 1..Len(issuerAddresses) : issuerAddresses[i] = issuer

isAuthorizedIssuer(issuer) == issuers[issuer].authorized

\* _addIssuerInternal pushing without looking at isInArray.
_addIssuerInternal_AlwaysPush(issuer, name, organization) ==
    /\ issuers' = [issuers EXCEPT ![issuer] =
                      [name |-> name, organization |-> organization,
                       authorized |-> TRUE]]
    /\ issuerAddresses' = Append(issuerAddresses, issuer)

_addIssuerInternal(issuer, name, organization) ==
    /\ issuers' = [issuers EXCEPT ![issuer] =
                      [name |-> name, organization |-> organization,
                       authorized |-> TRUE]]
    /\ issuerAddresses' =
          IF \E i \in 1..Len(issuerAddresses) : issuerAddresses[i] = issuer
          THEN issuerAddresses
          ELSE Append(issuerAddresses, issuer)

\* addIssuer without onlyOwner.
addIssuer_AnyCaller(caller, issuer, name, organization) ==
    /\ ~registryPaused
    /\ issuer # Zero
    /\ name # ""
    /\ ~issuers[issuer].authorized
    /\ _addIssuerInternal(issuer, name, organization)
    /\ UNCHANGED <<registryPaused, templateVars, sessionVars, tokenVars, now,
                   approvalVars, uriVars, guardVars>>

addIssuer(caller, issuer, name, organization) ==
    /\ caller = Admin
    /\ ~registryPaused
    /\ issuer # Zero
    /\ name # ""
    /\ ~issuers[issuer].authorized
    /\ _addIssuerInternal(issuer, name, organization)
    /\ UNCHANGED <<registryPaused, templateVars, sessionVars, tokenVars, now,
                   approvalVars, uriVars, guardVars>>

\* removeIssuer without the owner guard.
removeIssuer_OwnerToo(caller, issuer) ==
    /\ caller = Admin
    /\ ~registryPaused
    /\ issuer # Zero
    /\ issuers[issuer].authorized
    /\ issuers' = [issuers EXCEPT ![issuer].authorized = FALSE]
    /\ UNCHANGED <<issuerAddresses, registryPaused, templateVars, sessionVars,
                   tokenVars, now, approvalVars, uriVars, guardVars>>

removeIssuer(caller, issuer) ==
    /\ caller = Admin
    /\ ~registryPaused
    /\ issuer # Zero
    /\ issuers[issuer].authorized
    /\ issuer # Admin
    /\ issuers' = [issuers EXCEPT ![issuer].authorized = FALSE]
    /\ UNCHANGED <<issuerAddresses, registryPaused, templateVars, sessionVars,
                   tokenVars, now,
                   approvalVars, uriVars, guardVars>>

\* updateIssuer without the "Issuer not found" check.
updateIssuer_Unchecked(caller, issuer, name, organization) ==
    /\ caller = Admin
    /\ ~registryPaused
    /\ issuer # Zero
    /\ name # ""
    /\ issuers' = [issuers EXCEPT ![issuer].name = name,
                                  ![issuer].organization = organization]
    /\ UNCHANGED <<issuerAddresses, registryPaused, templateVars, sessionVars,
                   tokenVars, now, approvalVars, uriVars, guardVars>>

updateIssuer(caller, issuer, name, organization) ==
    /\ caller = Admin
    /\ ~registryPaused
    /\ issuer # Zero
    /\ issuers[issuer].authorized
    /\ name # ""
    /\ issuers' = [issuers EXCEPT ![issuer].name = name,
                                  ![issuer].organization = organization]
    /\ UNCHANGED <<issuerAddresses, registryPaused, templateVars, sessionVars,
                   tokenVars, now, approvalVars, uriVars, guardVars>>

\* getAuthorizedIssuerCount: one pass over issuerAddresses
RECURSIVE CountAuthorized(_)
CountAuthorized(i) ==
    IF i > Len(issuerAddresses) THEN 0
    ELSE (IF issuers[issuerAddresses[i]].authorized THEN 1 ELSE 0)
         + CountAuthorized(i + 1)

getAuthorizedIssuerCount == CountAuthorized(1)

\* getAllIssuers: the second pass, which fills the result in list order
RECURSIVE FillAuthorized(_, _)
FillAuthorized(i, authorizedIssuers) ==
    IF i > Len(issuerAddresses) THEN authorizedIssuers
    ELSE FillAuthorized(i + 1,
            IF issuers[issuerAddresses[i]].authorized
            THEN Append(authorizedIssuers, issuerAddresses[i])
            ELSE authorizedIssuers)

getAllIssuers == FillAuthorized(1, <<>>)

\* pause / unpause of IssuerRegistry (Pausable: _pause needs the flag clear,
\* _unpause needs it set)
IssuerRegistry_pause(caller) ==
    /\ caller = Admin
    /\ ~registryPaused
    /\ registryPaused' = TRUE
    /\ UNCHANGED <<issuers, issuerAddresses, templateVars, sessionVars,
                   tokenVars, now, approvalVars, uriVars, guardVars>>

IssuerRegistry_unpause(caller) ==
    /\ caller = Admin
    /\ registryPaused
    /\ registryPaused' = FALSE
    /\ UNCHANGED <<issuers, issuerAddresses, templateVars, sessionVars,
                   tokenVars, now, approvalVars, uriVars, guardVars>>

\* ============================================================ SBTTemplate
templateExists(templateId) ==
    templateId <= templateIdCounter /\ templateId > 0

isTemplateActive(templateId) ==
    IF templateId > templateIdCounter \/ templateId = 0
    THEN FALSE
    ELSE templates[templateId].active

\* createTemplate recording the counter as it was before the increment.
createTemplate_StaleId(caller, name, description) ==
    /\ isAuthorizedIssuer(caller)
    /\ ~templatePaused
    /\ name # ""
    /\ description # ""
    /\ templateIdCounter < MaxTemplates
    /\ templateIdCounter' = templateIdCounter + 1
    /\ templates' = [templates EXCEPT ![templateIdCounter + 1] =
                        [templateId |-> templateIdCounter, name |-> name,
                         description |-> description, issuer |-> caller,
                         active |-> TRUE]]
    /\ UNCHANGED <<templatePaused, registryVars, sessionVars, tokenVars, now,
                   approvalVars, uriVars, guardVars>>

createTemplate(caller, name, description) ==
    /\ isAuthorizedIssuer(caller)
    /\ ~templatePaused
    /\ name # ""
    /\ description # ""
    /\ templateIdCounter < MaxTemplates
    /\ templateIdCounter' = templateIdCounter + 1
    /\ templates' = [templates EXCEPT ![templateIdCounter + 1] =
                        [templateId |-> templateIdCounter + 1, name |-> name,
                         description |-> description, issuer |-> caller,
                         active |-> TRUE]]
    /\ UNCHANGED <<templatePaused, registryVars, sessionVars, tokenVars, now,
                   approvalVars, uriVars, guardVars>>

\* mutant: issued tokens follow the template text (text held by reference)
updateTemplate_Retro(caller, templateId, name, description) ==
    /\ templateExists(templateId)
    /\ templates[templateId].issuer = caller
    /\ ~templatePaused
    /\ name # ""
    /\ description # ""
    /\ templates[templateId].active
    /\ templates' = [templates EXCEPT ![templateId].name = name,
                                      ![templateId].description = description]
    /\ sbtData' = [k \in DOMAIN sbtData |->
                     IF sbtData[k].templateId = templateId
                     THEN [sbtData[k] EXCEPT !.name = name,
                                             !.description = description]
                     ELSE sbtData[k]]
    /\ UNCHANGED <<templateIdCounter, templatePaused, registryVars, sessionVars,
                   nextTokenId, tokenOwner, hasTokenFromTemplate,
                   hasTokenFromSession, tokenPaused, now,
                   approvalVars, uriVars, guardVars>>

updateTemplate(caller, templateId, name, description) ==
    /\ templateExists(templateId)
    /\ templates[templateId].issuer = caller
    /\ ~templatePaused
    /\ name # ""
    /\ description # ""
    /\ templates[templateId].active
    /\ templates' = [templates EXCEPT ![templateId].name = name,
                                      ![templateId].description = description]
    /\ UNCHANGED <<templateIdCounter, templatePaused, registryVars, sessionVars,
                   tokenVars, now,
                   approvalVars, uriVars, guardVars>>

\* deactivateTemplate with onlyAuthorizedIssuer in place of onlyTemplateIssuer.
deactivateTemplate_AnyIssuer(caller, templateId) ==
    /\ templateExists(templateId)
    /\ isAuthorizedIssuer(caller)
    /\ ~templatePaused
    /\ templates[templateId].active
    /\ templates' = [templates EXCEPT ![templateId].active = FALSE]
    /\ UNCHANGED <<templateIdCounter, templatePaused, registryVars, sessionVars,
                   tokenVars, now,
                   approvalVars, uriVars, guardVars>>

deactivateTemplate(caller, templateId) ==
    /\ templateExists(templateId)
    /\ templates[templateId].issuer = caller
    /\ ~templatePaused
    /\ templates[templateId].active
    /\ templates' = [templates EXCEPT ![templateId].active = FALSE]
    /\ UNCHANGED <<templateIdCounter, templatePaused, registryVars, sessionVars,
                   tokenVars, now,
                   approvalVars, uriVars, guardVars>>

\* reactivateTemplate without the "already active" check.
reactivateTemplate_Always(caller, templateId) ==
    /\ templateExists(templateId)
    /\ templates[templateId].issuer = caller
    /\ ~templatePaused
    /\ templates' = [templates EXCEPT ![templateId].active = TRUE]
    /\ UNCHANGED <<templateIdCounter, templatePaused, registryVars, sessionVars,
                   tokenVars, now,
                   approvalVars, uriVars, guardVars>>

reactivateTemplate(caller, templateId) ==
    /\ templateExists(templateId)
    /\ templates[templateId].issuer = caller
    /\ ~templatePaused
    /\ ~templates[templateId].active
    /\ templates' = [templates EXCEPT ![templateId].active = TRUE]
    /\ UNCHANGED <<templateIdCounter, templatePaused, registryVars, sessionVars,
                   tokenVars, now,
                   approvalVars, uriVars, guardVars>>

\* pause / unpause of SBTTemplate
SBTTemplate_pause(caller) ==
    /\ caller = Admin
    /\ ~templatePaused
    /\ templatePaused' = TRUE
    /\ UNCHANGED <<templateIdCounter, templates, registryVars, sessionVars,
                   tokenVars, now, approvalVars, uriVars, guardVars>>

SBTTemplate_unpause(caller) ==
    /\ caller = Admin
    /\ templatePaused
    /\ templatePaused' = FALSE
    /\ UNCHANGED <<templateIdCounter, templates, registryVars, sessionVars,
                   tokenVars, now, approvalVars, uriVars, guardVars>>

\* ============================================================= SBTSession
sessionExists(sessionId) ==
    sessionId \in SessionIds /\ sessions[sessionId].issuer # Zero

\* mutant: the capacity test is missing
isSessionClaimable_NoCapacity(sessionId) ==
    IF ~sessionExists(sessionId) THEN FALSE
    ELSE IF ~sessions[sessionId].active THEN FALSE
    ELSE IF now > sessions[sessionId].endTimestamp THEN FALSE
    ELSE TRUE

\* mutant: the expiry test is missing
isSessionClaimable_NoExpiry(sessionId) ==
    IF ~sessionExists(sessionId) THEN FALSE
    ELSE IF ~sessions[sessionId].active THEN FALSE
    ELSE IF sessions[sessionId].currentMints >= sessions[sessionId].maxMints
         THEN FALSE
    ELSE TRUE

\* mutant: the window closes one second early (>= for >)
isSessionClaimable_OffByOne(sessionId) ==
    IF ~sessionExists(sessionId) THEN FALSE
    ELSE IF ~sessions[sessionId].active THEN FALSE
    ELSE IF now >= sessions[sessionId].endTimestamp THEN FALSE
    ELSE IF sessions[sessionId].currentMints >= sessions[sessionId].maxMints
         THEN FALSE
    ELSE TRUE

\* isSessionClaimable that also asks for an active template.
isSessionClaimable_ActiveTemplate(sessionId) ==
    IF ~sessionExists(sessionId) THEN FALSE
    ELSE IF ~sessions[sessionId].active THEN FALSE
    ELSE IF ~templates[sessions[sessionId].templateId].active THEN FALSE
    ELSE IF now > sessions[sessionId].endTimestamp THEN FALSE
    ELSE IF sessions[sessionId].currentMints >= sessions[sessionId].maxMints
         THEN FALSE
    ELSE TRUE

isSessionClaimable(sessionId) ==
    IF ~sessionExists(sessionId) THEN FALSE
    ELSE IF ~sessions[sessionId].active THEN FALSE
    ELSE IF now > sessions[sessionId].endTimestamp THEN FALSE
    ELSE IF sessions[sessionId].currentMints >= sessions[sessionId].maxMints
         THEN FALSE
    ELSE TRUE

\* keccak256 over caller, parameters, timestamp, prevrandao and the nonce:
\* the id is any value of the id space (prevrandao is not predictable).
\* createSession without the "not template owner" check.
createSession_AnyTemplate(caller, templateId, maxMints, durationInSeconds, title, sessionId) ==
    /\ isAuthorizedIssuer(caller)
    /\ ~sessionPaused
    /\ isTemplateActive(templateId)
    /\ maxMints > 0
    /\ durationInSeconds > 0
    /\ sessions[sessionId].issuer = Zero
    /\ sessionNonce' = sessionNonce + 1
    /\ sessions' = [sessions EXCEPT ![sessionId] =
                       [sessionId |-> sessionId, templateId |-> templateId,
                        maxMints |-> maxMints, currentMints |-> 0,
                        endTimestamp |-> now + durationInSeconds,
                        issuer |-> caller, active |-> TRUE, title |-> title]]
    /\ UNCHANGED <<sbtTokenContract, sessionPaused, registryVars, templateVars,
                   tokenVars, now,
                   approvalVars, uriVars, guardVars>>

\* createSession without the collision require.
createSession_Overwrite(caller, templateId, maxMints, durationInSeconds, title, sessionId) ==
    /\ isAuthorizedIssuer(caller)
    /\ ~sessionPaused
    /\ isTemplateActive(templateId)
    /\ maxMints > 0
    /\ durationInSeconds > 0
    /\ templates[templateId].issuer = caller
    /\ sessionNonce' = sessionNonce + 1
    /\ sessions' = [sessions EXCEPT ![sessionId] =
                       [sessionId |-> sessionId, templateId |-> templateId,
                        maxMints |-> maxMints, currentMints |-> 0,
                        endTimestamp |-> now + durationInSeconds,
                        issuer |-> caller, active |-> TRUE, title |-> title]]
    /\ UNCHANGED <<sbtTokenContract, sessionPaused, registryVars, templateVars,
                   tokenVars, now,
                   approvalVars, uriVars, guardVars>>

createSession(caller, templateId, maxMints, durationInSeconds, title, sessionId) ==
    /\ isAuthorizedIssuer(caller)
    /\ ~sessionPaused
    /\ isTemplateActive(templateId)
    /\ maxMints > 0
    /\ durationInSeconds > 0
    /\ templates[templateId].issuer = caller
    /\ sessions[sessionId].issuer = Zero
    /\ sessionNonce' = sessionNonce + 1
    /\ sessions' = [sessions EXCEPT ![sessionId] =
                       [sessionId |-> sessionId, templateId |-> templateId,
                        maxMints |-> maxMints, currentMints |-> 0,
                        endTimestamp |-> now + durationInSeconds,
                        issuer |-> caller, active |-> TRUE, title |-> title]]
    /\ UNCHANGED <<sbtTokenContract, sessionPaused, registryVars, templateVars,
                   tokenVars, now,
                   approvalVars, uriVars, guardVars>>

\* the session table after `caller` calls incrementMintCount; the call
\* reverts (CanIncrement false) unless caller is the registered ledger
\* The two modifiers with a capacity check added.
CanIncrement_Claimable(caller, sessionId) ==
    caller = sbtTokenContract /\ isSessionClaimable(sessionId)

CanIncrement(caller, sessionId) ==
    caller = sbtTokenContract /\ sessionExists(sessionId)

\* mutant: the counter is not written
incrementMintCount_Noop(sess, sessionId) == sess

incrementMintCount(sess, sessionId) ==
    [sess EXCEPT ![sessionId].currentMints = @ + 1]

\* endSession without whenNotPaused.
endSession_WhenPaused(caller, sessionId) ==
    /\ sessionExists(sessionId)
    /\ sessions[sessionId].issuer = caller
    /\ sessions[sessionId].active
    /\ sessions' = [sessions EXCEPT ![sessionId].active = FALSE]
    /\ UNCHANGED <<sessionNonce, sbtTokenContract, sessionPaused, registryVars,
                   templateVars, tokenVars, now, approvalVars, uriVars, guardVars>>

\* endSession as a toggle of the active flag.
endSession_Toggle(caller, sessionId) ==
    /\ sessionExists(sessionId)
    /\ sessions[sessionId].issuer = caller
    /\ ~sessionPaused
    /\ sessions' = [sessions EXCEPT ![sessionId].active = ~@]
    /\ UNCHANGED <<sessionNonce, sbtTokenContract, sessionPaused, registryVars,
                   templateVars, tokenVars, now, approvalVars, uriVars, guardVars>>

\* endSession behind the registry check.
endSession_OnlyAuthorized(caller, sessionId) ==
    /\ isAuthorizedIssuer(caller)
    /\ sessionExists(sessionId)
    /\ sessions[sessionId].issuer = caller
    /\ ~sessionPaused
    /\ sessions[sessionId].active
    /\ sessions' = [sessions EXCEPT ![sessionId].active = FALSE]
    /\ UNCHANGED <<sessionNonce, sbtTokenContract, sessionPaused, registryVars,
                   templateVars, tokenVars, now,
                   approvalVars, uriVars, guardVars>>

endSession(caller, sessionId) ==
    /\ sessionExists(sessionId)
    /\ sessions[sessionId].issuer = caller
    /\ ~sessionPaused
    /\ sessions[sessionId].active
    /\ sessions' = [sessions EXCEPT ![sessionId].active = FALSE]
    /\ UNCHANGED <<sessionNonce, sbtTokenContract, sessionPaused, registryVars,
                   templateVars, tokenVars, now,
                   approvalVars, uriVars, guardVars>>

setSBTTokenContract(caller, _sbtTokenContract) ==
    /\ caller = Admin
    /\ _sbtTokenContract # Zero
    /\ sbtTokenContract' = _sbtTokenContract
    /\ UNCHANGED <<sessions, sessionNonce, sessionPaused, registryVars,
                   templateVars, tokenVars, now, approvalVars, uriVars, guardVars>>

\* incrementMintCount called as a transaction of its own, which an account
\* registered by setSBTTokenContract can do; the ledger itself calls it only
\* inside its mint paths.
callIncrementMintCount(caller, sessionId) ==
    /\ CanIncrement(caller, sessionId)
    /\ sessions' = incrementMintCount(sessions, sessionId)
    /\ UNCHANGED <<sessionNonce, sbtTokenContract, sessionPaused, registryVars,
                   templateVars, tokenVars, now, approvalVars, uriVars, guardVars>>

\* pause / unpause of SBTSession
SBTSession_pause(caller) ==
    /\ caller = Admin
    /\ ~sessionPaused
    /\ sessionPaused' = TRUE
    /\ UNCHANGED <<sessions, sessionNonce, sbtTokenContract, registryVars,
                   templateVars, tokenVars, now, approvalVars, uriVars, guardVars>>

SBTSession_unpause(caller) ==
    /\ caller = Admin
    /\ sessionPaused
    /\ sessionPaused' = FALSE
    /\ UNCHANGED <<sessions, sessionNonce, sbtTokenContract, registryVars,
                   templateVars, tokenVars, now, approvalVars, uriVars, guardVars>>

\* =============================================================== SBTToken
\* The mint functions without the guard.
nonReentrant_Off == TRUE

\* modifier nonReentrant: the call is refused while another guarded call of
\* SBTToken is in progress.
nonReentrant == _status # ENTERED

_ownerOf(tokenId) == IF tokenId \in TokenIds THEN tokenOwner[tokenId] ELSE Zero

\* validToken without the revoked check.
validToken_IgnoresRevoked(tokenId) == _ownerOf(tokenId) # Zero

\* modifier validToken
validToken(tokenId) ==
    /\ _ownerOf(tokenId) # Zero
    /\ ~sbtData[tokenId].revoked

\* ERC721Enumerable: tokens are only ever minted, so the tokens of an owner
\* are enumerated in the order of their ids.
balanceOf(owner) == Cardinality({k \in TokenIds : tokenOwner[k] = owner})

tokenOfOwnerByIndex(owner, index) ==
    CHOOSE k \in TokenIds :
       /\ tokenOwner[k] = owner
       /\ Cardinality({j \in 1..(k - 1) : tokenOwner[j] = owner}) = index

getUserSBTs(owner) ==
    [n \in 1..balanceOf(owner) |-> tokenOfOwnerByIndex(owner, n - 1)]

\* mintFromTemplate advancing the counter by two.
mintFromTemplate_SkipsId(caller, to, templateId) ==
    /\ isAuthorizedIssuer(caller)
    /\ ~tokenPaused
    /\ nonReentrant
    /\ to # Zero
    /\ isTemplateActive(templateId)
    /\ ~hasTokenFromTemplate[to][templateId]
    /\ templates[templateId].issuer = caller
    /\ nextTokenId <= MaxTokens
    /\ nextTokenId' = nextTokenId + 2
    /\ tokenOwner' = [tokenOwner EXCEPT ![nextTokenId] = to]
    /\ sbtData' = [sbtData EXCEPT ![nextTokenId] =
                      [name |-> templates[templateId].name,
                       description |-> templates[templateId].description,
                       issuer |-> caller, templateId |-> templateId,
                       sessionId |-> NoSession, revoked |-> FALSE]]
    /\ hasTokenFromTemplate' =
          [hasTokenFromTemplate EXCEPT ![to][templateId] = TRUE]
    /\ UNCHANGED <<hasTokenFromSession, tokenPaused, registryVars, templateVars,
                   sessionVars, now,
                   approvalVars, uriVars, guardVars>>

mintFromTemplate(caller, to, templateId) ==
    /\ isAuthorizedIssuer(caller)
    /\ ~tokenPaused
    /\ nonReentrant
    /\ to # Zero
    /\ isTemplateActive(templateId)
    /\ ~hasTokenFromTemplate[to][templateId]
    /\ templates[templateId].issuer = caller
    /\ nextTokenId <= MaxTokens
    /\ nextTokenId' = nextTokenId + 1
    /\ tokenOwner' = [tokenOwner EXCEPT ![nextTokenId] = to]
    /\ sbtData' = [sbtData EXCEPT ![nextTokenId] =
                      [name |-> templates[templateId].name,
                       description |-> templates[templateId].description,
                       issuer |-> caller, templateId |-> templateId,
                       sessionId |-> NoSession, revoked |-> FALSE]]
    /\ hasTokenFromTemplate' =
          [hasTokenFromTemplate EXCEPT ![to][templateId] = TRUE]
    /\ UNCHANGED <<hasTokenFromSession, tokenPaused, registryVars, templateVars,
                   sessionVars, now,
                   approvalVars, uriVars, guardVars>>

\* mintFromSession without the "Not session owner" check.
mintFromSession_AnyIssuer(caller, to, sessionId) ==
    /\ isAuthorizedIssuer(caller)
    /\ ~tokenPaused
    /\ nonReentrant
    /\ to # Zero
    /\ isSessionClaimable(sessionId)
    /\ ~hasTokenFromSession[to][sessionId]
    /\ templateExists(sessions[sessionId].templateId)
    /\ nextTokenId <= MaxTokens
    /\ CanIncrement(Ledger, sessionId)
    /\ LET session == sessions[sessionId]
           template == templates[session.templateId]
       IN  /\ nextTokenId' = nextTokenId + 1
           /\ tokenOwner' = [tokenOwner EXCEPT ![nextTokenId] = to]
           /\ sbtData' = [sbtData EXCEPT ![nextTokenId] =
                             [name |-> template.name,
                              description |-> template.description,
                              issuer |-> caller,
                              templateId |-> session.templateId,
                              sessionId |-> sessionId, revoked |-> FALSE]]
           /\ hasTokenFromSession' =
                 [hasTokenFromSession EXCEPT ![to][sessionId] = TRUE]
           /\ hasTokenFromTemplate' =
                 [hasTokenFromTemplate EXCEPT ![to][session.templateId] = TRUE]
           /\ sessions' = incrementMintCount(sessions, sessionId)
    /\ UNCHANGED <<tokenPaused, sessionNonce, sbtTokenContract, sessionPaused,
                   registryVars, templateVars, now,
                   approvalVars, uriVars, guardVars>>

\* mintFromSession that does not mark (recipient, session) claimed.
mintFromSession_NoSessionMark(caller, to, sessionId) ==
    /\ isAuthorizedIssuer(caller)
    /\ ~tokenPaused
    /\ nonReentrant
    /\ to # Zero
    /\ isSessionClaimable(sessionId)
    /\ ~hasTokenFromSession[to][sessionId]
    /\ sessions[sessionId].issuer = caller
    /\ templateExists(sessions[sessionId].templateId)
    /\ nextTokenId <= MaxTokens
    /\ CanIncrement(Ledger, sessionId)
    /\ LET session == sessions[sessionId]
           template == templates[session.templateId]
       IN  /\ nextTokenId' = nextTokenId + 1
           /\ tokenOwner' = [tokenOwner EXCEPT ![nextTokenId] = to]
           /\ sbtData' = [sbtData EXCEPT ![nextTokenId] =
                             [name |-> template.name,
                              description |-> template.description,
                              issuer |-> caller,
                              templateId |-> session.templateId,
                              sessionId |-> sessionId, revoked |-> FALSE]]
           /\ hasTokenFromSession' = hasTokenFromSession
           /\ hasTokenFromTemplate' =
                 [hasTokenFromTemplate EXCEPT ![to][session.templateId] = TRUE]
           /\ sessions' = incrementMintCount(sessions, sessionId)
    /\ UNCHANGED <<tokenPaused, sessionNonce, sbtTokenContract, sessionPaused,
                   registryVars, templateVars, now,
                   approvalVars, uriVars, guardVars>>

mintFromSession(caller, to, sessionId) ==
    /\ isAuthorizedIssuer(caller)
    /\ ~tokenPaused
    /\ nonReentrant
    /\ to # Zero
    /\ isSessionClaimable(sessionId)
    /\ ~hasTokenFromSession[to][sessionId]
    /\ sessions[sessionId].issuer = caller
    /\ templateExists(sessions[sessionId].templateId)
    /\ nextTokenId <= MaxTokens
    /\ CanIncrement(Ledger, sessionId)
    /\ LET session == sessions[sessionId]
           template == templates[session.templateId]
       IN  /\ nextTokenId' = nextTokenId + 1
           /\ tokenOwner' = [tokenOwner EXCEPT ![nextTokenId] = to]
           /\ sbtData' = [sbtData EXCEPT ![nextTokenId] =
                             [name |-> template.name,
                              description |-> template.description,
                              issuer |-> caller,
                              templateId |-> session.templateId,
                              sessionId |-> sessionId, revoked |-> FALSE]]
           /\ hasTokenFromSession' =
                 [hasTokenFromSession EXCEPT ![to][sessionId] = TRUE]
           /\ hasTokenFromTemplate' =
                 [hasTokenFromTemplate EXCEPT ![to][session.templateId] = TRUE]
           /\ sessions' = incrementMintCount(sessions, sessionId)
    /\ UNCHANGED <<tokenPaused, sessionNonce, sbtTokenContract, sessionPaused,
                   registryVars, templateVars, now,
                   approvalVars, uriVars, guardVars>>

\* mutant: the duplicate-claim require is missing
claimFromSession_NoDupCheck(caller, sessionId) ==
    /\ ~tokenPaused
    /\ nonReentrant
    /\ isSessionClaimable(sessionId)
    /\ templateExists(sessions[sessionId].templateId)
    /\ nextTokenId <= MaxTokens
    /\ CanIncrement(Ledger, sessionId)
    /\ LET session == sessions[sessionId]
           template == templates[session.templateId]
       IN  /\ nextTokenId' = nextTokenId + 1
           /\ tokenOwner' = [tokenOwner EXCEPT ![nextTokenId] = caller]
           /\ sbtData' = [sbtData EXCEPT ![nextTokenId] =
                             [name |-> template.name,
                              description |-> template.description,
                              issuer |-> session.issuer,
                              templateId |-> session.templateId,
                              sessionId |-> sessionId, revoked |-> FALSE]]
           /\ hasTokenFromSession' =
                 [hasTokenFromSession EXCEPT ![caller][sessionId] = TRUE]
           /\ hasTokenFromTemplate' =
                 [hasTokenFromTemplate EXCEPT ![caller][session.templateId] = TRUE]
           /\ sessions' = incrementMintCount(sessions, sessionId)
    /\ UNCHANGED <<tokenPaused, sessionNonce, sbtTokenContract, sessionPaused,
                   registryVars, templateVars, now,
                   approvalVars, uriVars, guardVars>>

\* claimFromSession recording the caller as the issuer, as mintFromSession does.
claimFromSession_IssuerIsCaller(caller, sessionId) ==
    /\ ~tokenPaused
    /\ nonReentrant
    /\ isSessionClaimable(sessionId)
    /\ ~hasTokenFromSession[caller][sessionId]
    /\ templateExists(sessions[sessionId].templateId)
    /\ nextTokenId <= MaxTokens
    /\ CanIncrement(Ledger, sessionId)
    /\ LET session == sessions[sessionId]
           template == templates[session.templateId]
       IN  /\ nextTokenId' = nextTokenId + 1
           /\ tokenOwner' = [tokenOwner EXCEPT ![nextTokenId] = caller]
           /\ sbtData' = [sbtData EXCEPT ![nextTokenId] =
                             [name |-> template.name,
                              description |-> template.description,
                              issuer |-> caller,
                              templateId |-> session.templateId,
                              sessionId |-> sessionId, revoked |-> FALSE]]
           /\ hasTokenFromSession' =
                 [hasTokenFromSession EXCEPT ![caller][sessionId] = TRUE]
           /\ hasTokenFromTemplate' =
                 [hasTokenFromTemplate EXCEPT ![caller][session.templateId] = TRUE]
           /\ sessions' = incrementMintCount(sessions, sessionId)
    /\ UNCHANGED <<tokenPaused, sessionNonce, sbtTokenContract, sessionPaused,
                   registryVars, templateVars, now,
                   approvalVars, uriVars, guardVars>>

\* claimFromSession without the incrementMintCount call.
claimFromSession_NoIncrement(caller, sessionId) ==
    /\ ~tokenPaused
    /\ nonReentrant
    /\ isSessionClaimable(sessionId)
    /\ ~hasTokenFromSession[caller][sessionId]
    /\ templateExists(sessions[sessionId].templateId)
    /\ nextTokenId <= MaxTokens
    /\ CanIncrement(Ledger, sessionId)
    /\ LET session == sessions[sessionId]
           template == templates[session.templateId]
       IN  /\ nextTokenId' = nextTokenId + 1
           /\ tokenOwner' = [tokenOwner EXCEPT ![nextTokenId] = caller]
           /\ sbtData' = [sbtData EXCEPT ![nextTokenId] =
                             [name |-> template.name,
                              description |-> template.description,
                              issuer |-> session.issuer,
                              templateId |-> session.templateId,
                              sessionId |-> sessionId, revoked |-> FALSE]]
           /\ hasTokenFromSession' =
                 [hasTokenFromSession EXCEPT ![caller][sessionId] = TRUE]
           /\ hasTokenFromTemplate' =
                 [hasTokenFromTemplate EXCEPT ![caller][session.templateId] = TRUE]
           /\ sessions' = sessions
    /\ UNCHANGED <<tokenPaused, sessionNonce, sbtTokenContract, sessionPaused,
                   registryVars, templateVars, now,
                   approvalVars, uriVars, guardVars>>

claimFromSession(caller, sessionId) ==
    /\ ~tokenPaused
    /\ nonReentrant
    /\ isSessionClaimable(sessionId)
    /\ ~hasTokenFromSession[caller][sessionId]
    /\ templateExists(sessions[sessionId].templateId)
    /\ nextTokenId <= MaxTokens
    /\ CanIncrement(Ledger, sessionId)
    /\ LET session == sessions[sessionId]
           template == templates[session.templateId]
       IN  /\ nextTokenId' = nextTokenId + 1
           /\ tokenOwner' = [tokenOwner EXCEPT ![nextTokenId] = caller]
           /\ sbtData' = [sbtData EXCEPT ![nextTokenId] =
                             [name |-> template.name,
                              description |-> template.description,
                              issuer |-> session.issuer,
                              templateId |-> session.templateId,
                              sessionId |-> sessionId, revoked |-> FALSE]]
           /\ hasTokenFromSession' =
                 [hasTokenFromSession EXCEPT ![caller][sessionId] = TRUE]
           /\ hasTokenFromTemplate' =
                 [hasTokenFromTemplate EXCEPT ![caller][session.templateId] = TRUE]
           /\ sessions' = incrementMintCount(sessions, sessionId)
    /\ UNCHANGED <<tokenPaused, sessionNonce, sbtTokenContract, sessionPaused,
                   registryVars, templateVars, now,
                   approvalVars, uriVars, guardVars>>

\* The ledger fields the batch loop writes, as one record.
LedgerState ==
    [ok |-> TRUE, nextTokenId |-> nextTokenId, tokenOwner |-> tokenOwner,
     sbtData |-> sbtData, hasTokenFromTemplate |-> hasTokenFromTemplate,
     hasTokenFromSession |-> hasTokenFromSession]

\* mutant: a recipient that fails its checks is skipped, the rest are minted
RECURSIVE BatchMintLoop_Skip(_, _, _, _, _)
BatchMintLoop_Skip(L, recipients, i, caller, sessionId) ==
    IF i > Len(recipients) THEN L
    ELSE LET to == recipients[i]
             session == sessions[sessionId]
             template == templates[session.templateId]
             tokenId == L.nextTokenId
         IN  IF \/ to = Zero
                \/ L.hasTokenFromSession[to][sessionId]
                \/ tokenId > MaxTokens
             THEN BatchMintLoop_Skip(L, recipients, i + 1, caller, sessionId)
             ELSE BatchMintLoop_Skip(
                    [ok |-> TRUE,
                     nextTokenId |-> tokenId + 1,
                     tokenOwner |-> [L.tokenOwner EXCEPT ![tokenId] = to],
                     sbtData |-> [L.sbtData EXCEPT ![tokenId] =
                                    [name |-> template.name,
                                     description |-> template.description,
                                     issuer |-> caller,
                                     templateId |-> session.templateId,
                                     sessionId |-> sessionId,
                                     revoked |-> FALSE]],
                     hasTokenFromTemplate |->
                        [L.hasTokenFromTemplate EXCEPT
                            ![to][session.templateId] = TRUE],
                     hasTokenFromSession |->
                        [L.hasTokenFromSession EXCEPT ![to][sessionId] = TRUE]],
                    recipients, i + 1, caller, sessionId)

\* The first loop of batchMintFromSession from index i on: a failed require
\* of any iteration reverts the call (ok = FALSE).
RECURSIVE BatchMintLoop(_, _, _, _, _)
BatchMintLoop(L, recipients, i, caller, sessionId) ==
    IF i > Len(recipients) THEN L
    ELSE LET to == recipients[i]
             session == sessions[sessionId]
             template == templates[session.templateId]
             tokenId == L.nextTokenId
         IN  IF \/ to = Zero
                \/ L.hasTokenFromSession[to][sessionId]
                \/ tokenId > MaxTokens
             THEN [L EXCEPT !.ok = FALSE]
             ELSE BatchMintLoop(
                    [ok |-> TRUE,
                     nextTokenId |-> tokenId + 1,
                     tokenOwner |-> [L.tokenOwner EXCEPT ![tokenId] = to],
                     sbtData |-> [L.sbtData EXCEPT ![tokenId] =
                                    [name |-> template.name,
                                     description |-> template.description,
                                     issuer |-> caller,
                                     templateId |-> session.templateId,
                                     sessionId |-> sessionId,
                                     revoked |-> FALSE]],
                     hasTokenFromTemplate |->
                        [L.hasTokenFromTemplate EXCEPT
                            ![to][session.templateId] = TRUE],
                     hasTokenFromSession |->
                        [L.hasTokenFromSession EXCEPT ![to][sessionId] = TRUE]],
                    recipients, i + 1, caller, sessionId)

\* The second loop making one call whatever the number of recipients.
BatchIncrementLoop_Once(sess, sessionId, n) ==
    incrementMintCount(sess, sessionId)

\* The second loop: one incrementMintCount call per recipient.
RECURSIVE BatchIncrementLoop(_, _, _)
BatchIncrementLoop(sess, sessionId, n) ==
    IF n = 0 THEN sess
    ELSE BatchIncrementLoop(incrementMintCount(sess, sessionId), sessionId, n - 1)

\* batchMintFromSession keeping what the loop minted before it failed.
batchMintFromSession_KeepsPrefix(caller, recipients, sessionId) ==
    /\ isAuthorizedIssuer(caller)
    /\ ~tokenPaused
    /\ nonReentrant
    /\ Len(recipients) > 0
    /\ Len(recipients) <= BatchLimit
    /\ isSessionClaimable(sessionId)
    /\ sessions[sessionId].issuer = caller
    /\ sessions[sessionId].currentMints + Len(recipients)
          <= sessions[sessionId].maxMints
    /\ templateExists(sessions[sessionId].templateId)
    /\ CanIncrement(Ledger, sessionId)
    /\ LET L == BatchMintLoop(LedgerState, recipients, 1, caller, sessionId)
       IN  /\ nextTokenId' = L.nextTokenId
           /\ tokenOwner' = L.tokenOwner
           /\ sbtData' = L.sbtData
           /\ hasTokenFromTemplate' = L.hasTokenFromTemplate
           /\ hasTokenFromSession' = L.hasTokenFromSession
    /\ sessions' = BatchIncrementLoop(sessions, sessionId, Len(recipients))
    /\ UNCHANGED <<tokenPaused, sessionNonce, sbtTokenContract, sessionPaused,
                   registryVars, templateVars, now,
                   approvalVars, uriVars, guardVars>>

batchMintFromSession(caller, recipients, sessionId) ==
    /\ isAuthorizedIssuer(caller)
    /\ ~tokenPaused
    /\ nonReentrant
    /\ Len(recipients) > 0
    /\ Len(recipients) <= BatchLimit
    /\ isSessionClaimable(sessionId)
    /\ sessions[sessionId].issuer = caller
    /\ sessions[sessionId].currentMints + Len(recipients)
          <= sessions[sessionId].maxMints
    /\ templateExists(sessions[sessionId].templateId)
    /\ CanIncrement(Ledger, sessionId)
    /\ LET L == BatchMintLoop(LedgerState, recipients, 1, caller, sessionId)
       IN  /\ L.ok
           /\ nextTokenId' = L.nextTokenId
           /\ tokenOwner' = L.tokenOwner
           /\ sbtData' = L.sbtData
           /\ hasTokenFromTemplate' = L.hasTokenFromTemplate
           /\ hasTokenFromSession' = L.hasTokenFromSession
    /\ sessions' = BatchIncrementLoop(sessions, sessionId, Len(recipients))
    /\ UNCHANGED <<tokenPaused, sessionNonce, sbtTokenContract, sessionPaused,
                   registryVars, templateVars, now,
                   approvalVars, uriVars, guardVars>>

\* mutant: the session marker is left set
revokeSBT_KeepSessionMarker(caller, tokenId) ==
    /\ validToken(tokenId)
    /\ ~tokenPaused
    /\ caller = sbtData[tokenId].issuer \/ caller = Admin
    /\ sbtData' = [sbtData EXCEPT ![tokenId].revoked = TRUE]
    /\ hasTokenFromTemplate' =
          [hasTokenFromTemplate EXCEPT
              ![tokenOwner[tokenId]][sbtData[tokenId].templateId] = FALSE]
    /\ UNCHANGED <<hasTokenFromSession, nextTokenId, tokenOwner, tokenPaused,
                   registryVars, templateVars, sessionVars, now,
                   approvalVars, uriVars, guardVars>>

\* revokeSBT that also lets the token's owner revoke.
revokeSBT_OwnerMay(caller, tokenId) ==
    /\ validToken(tokenId)
    /\ ~tokenPaused
    /\ \/ caller = sbtData[tokenId].issuer
       \/ caller = Admin
       \/ caller = tokenOwner[tokenId]
    /\ LET tokenOwnerAddr == tokenOwner[tokenId]
           templateId == sbtData[tokenId].templateId
           sessionId == sbtData[tokenId].sessionId
       IN  /\ sbtData' = [sbtData EXCEPT ![tokenId].revoked = TRUE]
           /\ hasTokenFromTemplate' =
                 [hasTokenFromTemplate EXCEPT ![tokenOwnerAddr][templateId] = FALSE]
           /\ hasTokenFromSession' =
                 IF sessionId # NoSession
                 THEN [hasTokenFromSession EXCEPT
                          ![tokenOwnerAddr][sessionId] = FALSE]
                 ELSE hasTokenFromSession
    /\ UNCHANGED <<nextTokenId, tokenOwner, tokenPaused, registryVars,
                   templateVars, sessionVars, now,
                   approvalVars, uriVars, guardVars>>

revokeSBT(caller, tokenId) ==
    /\ validToken(tokenId)
    /\ ~tokenPaused
    /\ caller = sbtData[tokenId].issuer \/ caller = Admin
    /\ LET tokenOwnerAddr == tokenOwner[tokenId]
           templateId == sbtData[tokenId].templateId
           sessionId == sbtData[tokenId].sessionId
       IN  /\ sbtData' = [sbtData EXCEPT ![tokenId].revoked = TRUE]
           /\ hasTokenFromTemplate' =
                 [hasTokenFromTemplate EXCEPT ![tokenOwnerAddr][templateId] = FALSE]
           /\ hasTokenFromSession' =
                 IF sessionId # NoSession
                 THEN [hasTokenFromSession EXCEPT
                          ![tokenOwnerAddr][sessionId] = FALSE]
                 ELSE hasTokenFromSession
    /\ UNCHANGED <<nextTokenId, tokenOwner, tokenPaused, registryVars,
                   templateVars, sessionVars, now,
                   approvalVars, uriVars, guardVars>>

\* pause / unpause of SBTToken
SBTToken_pause(caller) ==
    /\ caller = Admin
    /\ ~tokenPaused
    /\ tokenPaused' = TRUE
    /\ UNCHANGED <<nextTokenId, tokenOwner, sbtData, hasTokenFromTemplate,
                   hasTokenFromSession, registryVars, templateVars,
                   sessionVars, now, approvalVars, uriVars, guardVars>>

SBTToken_unpause(caller) ==
    /\ caller = Admin
    /\ tokenPaused
    /\ tokenPaused' = FALSE
    /\ UNCHANGED <<nextTokenId, tokenOwner, sbtData, hasTokenFromTemplate,
                   hasTokenFromSession, registryVars, templateVars,
                   sessionVars, now, approvalVars, uriVars, guardVars>>

\* ------------------------------------------------- soulbound overrides
\* The check the _update override makes before it hands over to ERC721:
\* minting (from = 0) and burning (to = 0) pass, every other movement reverts.
_update_AllowTransfer(to, tokenId) == TRUE

_update(to, tokenId) ==
    LET from == _ownerOf(tokenId)
    IN  ~(from # Zero /\ to # Zero)

\* ERC721.transferFrom (safeTransferFrom runs it first): every token movement
\* goes through _update.
transferFrom(caller, from, to, tokenId) ==
    /\ to # Zero
    /\ _update(to, tokenId)
    /\ _ownerOf(tokenId) # Zero
    /\ \/ caller = _ownerOf(tokenId)
       \/ tokenApprovals[tokenId] = caller
       \/ <<_ownerOf(tokenId), caller>> \in operatorApprovals
    /\ _ownerOf(tokenId) = from
    /\ tokenOwner' = [tokenOwner EXCEPT ![tokenId] = to]
    /\ tokenApprovals' = [tokenApprovals EXCEPT ![tokenId] = Zero]
    /\ UNCHANGED <<nextTokenId, sbtData, hasTokenFromTemplate,
                   hasTokenFromSession, tokenPaused, operatorApprovals,
                   registryVars, templateVars, sessionVars, now>>

\* What ERC721.approve would do without the override.
approve_Erc721(caller, to, tokenId) ==
    /\ _ownerOf(tokenId) # Zero
    /\ caller = _ownerOf(tokenId)
    /\ tokenApprovals' = [tokenApprovals EXCEPT ![tokenId] = to]
    /\ UNCHANGED <<registryVars, templateVars, sessionVars, tokenVars,
                   operatorApprovals, now>>

\* approve: pure, reverts on every input.
approve(caller, to, tokenId) ==
    /\ FALSE
    /\ UNCHANGED vars

\* setApprovalForAll: pure, reverts on every input.
setApprovalForAll(caller, operator, approved) ==
    /\ FALSE
    /\ UNCHANGED vars

getApproved(tokenId) == Zero

isApprovedForAll(owner, operator) == FALSE

\* ================================================================== clock
Tick ==
    /\ now < MaxTime
    /\ now' = now + 1
    /\ UNCHANGED <<registryVars, templateVars, sessionVars, tokenVars,
                   approvalVars, uriVars, guardVars>>

\* ========================== SBTToken: a mint to a recipient that has code
\* _safeMint calls onERC721Received of a recipient that is a contract.  A
\* mint to such a recipient is three kinds of step: the call up to the hook
\* (.._Enter), the calls the hook makes (the functions above, sent by a
\* contract while the frame is open), and the rest of the mint (Mint_Return)
\* or the revert of the whole transaction (Mint_Revert).
Contracts == {"u2"}

\* What the transaction may write, as it was when the transaction started.
Saved ==
    [templateIdCounter |-> templateIdCounter, templates |-> templates,
     sessions |-> sessions, sessionNonce |-> sessionNonce,
     nextTokenId |-> nextTokenId, tokenOwner |-> tokenOwner,
     sbtData |-> sbtData, hasTokenFromTemplate |-> hasTokenFromTemplate,
     hasTokenFromSession |-> hasTokenFromSession]

\* No transaction is in progress / the sender of a call: anybody between
\* transactions, a contract inside the hook.
TopLevel == frame = NoFrame
Sender(c) == TopLevel \/ c \in Contracts

\* _nextTokenId++ and _safeMint up to the hook, on the ledger fields L, for
\* the call described by f.
_safeMint(f, L) ==
    /\ _status' = ENTERED
    /\ nextTokenId' = L.nextTokenId + 1
    /\ tokenOwner' = [L.tokenOwner EXCEPT ![L.nextTokenId] = f.to]
    /\ sbtData' = L.sbtData
    /\ hasTokenFromTemplate' = L.hasTokenFromTemplate
    /\ hasTokenFromSession' = L.hasTokenFromSession
    /\ frame' = [fn |-> f.fn, caller |-> f.caller, to |-> f.to,
                 templateId |-> f.templateId, sessionId |-> f.sessionId,
                 tokenId |-> L.nextTokenId,
                 name |-> templates[f.templateId].name,
                 description |-> templates[f.templateId].description,
                 issuer |-> f.issuer, recipients |-> f.recipients, i |-> f.i,
                 saved |-> Saved]
    /\ UNCHANGED <<tokenPaused, registryVars, templateVars, sessionVars,
                   approvalVars, uriVars, now>>

mintFromTemplate_Enter(caller, to, templateId) ==
    /\ TopLevel
    /\ to \in Contracts
    /\ isAuthorizedIssuer(caller)
    /\ ~tokenPaused
    /\ nonReentrant
    /\ to # Zero
    /\ isTemplateActive(templateId)
    /\ ~hasTokenFromTemplate[to][templateId]
    /\ templates[templateId].issuer = caller
    /\ nextTokenId <= MaxTokens
    /\ _safeMint([fn |-> "mintFromTemplate", caller |-> caller, to |-> to,
                  templateId |-> templateId, sessionId |-> NoSession,
                  issuer |-> caller, recipients |-> <<to>>, i |-> 1],
                 LedgerState)

mintFromSession_Enter(caller, to, sessionId) ==
    /\ TopLevel
    /\ to \in Contracts
    /\ isAuthorizedIssuer(caller)
    /\ ~tokenPaused
    /\ nonReentrant
    /\ to # Zero
    /\ isSessionClaimable(sessionId)
    /\ ~hasTokenFromSession[to][sessionId]
    /\ sessions[sessionId].issuer = caller
    /\ templateExists(sessions[sessionId].templateId)
    /\ nextTokenId <= MaxTokens
    /\ _safeMint([fn |-> "mintFromSession", caller |-> caller, to |-> to,
                  templateId |-> sessions[sessionId].templateId,
                  sessionId |-> sessionId, issuer |-> caller,
                  recipients |-> <<to>>, i |-> 1],
                 LedgerState)

claimFromSession_Enter(caller, sessionId) ==
    /\ TopLevel
    /\ caller \in Contracts
    /\ ~tokenPaused
    /\ nonReentrant
    /\ isSessionClaimable(sessionId)
    /\ ~hasTokenFromSession[caller][sessionId]
    /\ templateExists(sessions[sessionId].templateId)
    /\ nextTokenId <= MaxTokens
    /\ _safeMint([fn |-> "claimFromSession", caller |-> caller, to |-> caller,
                  templateId |-> sessions[sessionId].templateId,
                  sessionId |-> sessionId,
                  issuer |-> sessions[sessionId].issuer,
                  recipients |-> <<caller>>, i |-> 1],
                 LedgerState)

\* The index of the first recipient with code, 0 when there is none.
RECURSIVE FirstContract(_, _)
FirstContract(recipients, i) ==
    IF i > Len(recipients) THEN 0
    ELSE IF recipients[i] \in Contracts THEN i
    ELSE FirstContract(recipients, i + 1)

\* batchMintFromSession up to the hook of its first recipient with code: the
\* iterations before it run to their end.
batchMintFromSession_Enter(caller, recipients, sessionId) ==
    /\ TopLevel
    /\ isAuthorizedIssuer(caller)
    /\ ~tokenPaused
    /\ nonReentrant
    /\ Len(recipients) > 0
    /\ Len(recipients) <= BatchLimit
    /\ FirstContract(recipients, 1) # 0
    /\ isSessionClaimable(sessionId)
    /\ sessions[sessionId].issuer = caller
    /\ sessions[sessionId].currentMints + Len(recipients)
          <= sessions[sessionId].maxMints
    /\ templateExists(sessions[sessionId].templateId)
    /\ LET j == FirstContract(recipients, 1)
           L == BatchMintLoop(LedgerState, SubSeq(recipients, 1, j - 1), 1,
                              caller, sessionId)
       IN  /\ L.ok
           /\ ~L.hasTokenFromSession[recipients[j]][sessionId]
           /\ L.nextTokenId <= MaxTokens
           /\ _safeMint([fn |-> "batchMintFromSession", caller |-> caller,
                         to |-> recipients[j],
                         templateId |-> sessions[sessionId].templateId,
                         sessionId |-> sessionId, issuer |-> caller,
                         recipients |-> recipients, i |-> j],
                        L)

\* The mint after the hook returned: the token's data and the claim markers
\* are written, a batch runs its remaining iterations, and currentMints is
\* incremented once per recipient; the guard is released.
Mint_Return ==
    /\ ~TopLevel
    /\ LET f == frame
           L0 == [ok |-> TRUE,
                  nextTokenId |-> nextTokenId,
                  tokenOwner |-> tokenOwner,
                  sbtData |-> [sbtData EXCEPT ![f.tokenId] =
                                 [name |-> f.name,
                                  description |-> f.description,
                                  issuer |-> f.issuer,
                                  templateId |-> f.templateId,
                                  sessionId |-> f.sessionId,
                                  revoked |-> FALSE]],
                  hasTokenFromTemplate |->
                     [hasTokenFromTemplate EXCEPT ![f.to][f.templateId] = TRUE],
                  hasTokenFromSession |->
                     IF f.sessionId # NoSession
                     THEN [hasTokenFromSession EXCEPT
                              ![f.to][f.sessionId] = TRUE]
                     ELSE hasTokenFromSession]
           L == IF f.fn = "batchMintFromSession"
                THEN BatchMintLoop(L0, f.recipients, f.i + 1, f.caller,
                                   f.sessionId)
                ELSE L0
       IN  /\ L.ok
           /\ f.sessionId # NoSession => CanIncrement(Ledger, f.sessionId)
           /\ nextTokenId' = L.nextTokenId
           /\ tokenOwner' = L.tokenOwner
           /\ sbtData' = L.sbtData
           /\ hasTokenFromTemplate' = L.hasTokenFromTemplate
           /\ hasTokenFromSession' = L.hasTokenFromSession
           /\ sessions' =
                 IF f.sessionId = NoSession THEN sessions
                 ELSE BatchIncrementLoop(sessions, f.sessionId,
                                         Len(f.recipients))
    /\ _status' = NOT_ENTERED
    /\ frame' = NoFrame
    /\ UNCHANGED <<tokenPaused, sessionNonce, sbtTokenContract, sessionPaused,
                   registryVars, templateVars, approvalVars, uriVars, now>>

\* The hook, or a later require of the mint, reverts: every write of the
\* transaction is undone.
Mint_Revert ==
    /\ ~TopLevel
    /\ templateIdCounter' = frame.saved.templateIdCounter
    /\ templates' = frame.saved.templates
    /\ sessions' = frame.saved.sessions
    /\ sessionNonce' = frame.saved.sessionNonce
    /\ nextTokenId' = frame.saved.nextTokenId
    /\ tokenOwner' = frame.saved.tokenOwner
    /\ sbtData' = frame.saved.sbtData
    /\ hasTokenFromTemplate' = frame.saved.hasTokenFromTemplate
    /\ hasTokenFromSession' = frame.saved.hasTokenFromSession
    /\ _status' = NOT_ENTERED
    /\ frame' = NoFrame
    /\ UNCHANGED <<tokenPaused, sbtTokenContract, sessionPaused, templatePaused,
                   registryVars, approvalVars, uriVars, now>>

\* ================================================ SBTToken (URI-based)
\* The state of the registry, the template catalog, the sessions and the
\* template ledger, none of which the URI-based ledger writes.
otherVars == <<registryVars, templateVars, sessionVars, tokenVars,
               approvalVars, guardVars, now>>

\* mintSBT without the hasTokenFromIssuer require.
mintSBT_NoDupCheck(caller, to, uri) ==
    /\ isAuthorizedIssuer(caller)
    /\ ~uriPaused
    /\ to # Zero
    /\ uri # ""
    /\ uriNextTokenId <= MaxUriTokens
    /\ LET tokenId == uriNextTokenId
       IN  /\ uriNextTokenId' = tokenId + 1
           /\ uriOwners' = [uriOwners EXCEPT ![tokenId] = to]
           /\ tokenURIs' = [tokenURIs EXCEPT ![tokenId] = uri]
           /\ tokenIssuer' = [tokenIssuer EXCEPT ![tokenId] = caller]
           /\ hasTokenFromIssuer' =
                 [hasTokenFromIssuer EXCEPT ![to][caller] = TRUE]
    /\ UNCHANGED <<tokenRevoked, uriPaused, otherVars>>

mintSBT(caller, to, uri) ==
    /\ isAuthorizedIssuer(caller)
    /\ ~uriPaused
    /\ to # Zero
    /\ uri # ""
    /\ ~hasTokenFromIssuer[to][caller]
    /\ uriNextTokenId <= MaxUriTokens
    /\ LET tokenId == uriNextTokenId
       IN  /\ uriNextTokenId' = tokenId + 1
           /\ uriOwners' = [uriOwners EXCEPT ![tokenId] = to]
           /\ tokenURIs' = [tokenURIs EXCEPT ![tokenId] = uri]
           /\ tokenIssuer' = [tokenIssuer EXCEPT ![tokenId] = caller]
           /\ hasTokenFromIssuer' =
                 [hasTokenFromIssuer EXCEPT ![to][caller] = TRUE]
    /\ UNCHANGED <<tokenRevoked, uriPaused, otherVars>>

\* The fields the loop of batchMintSBT writes, as one record.
UriLedgerState ==
    [ok |-> TRUE, uriNextTokenId |-> uriNextTokenId, uriOwners |-> uriOwners,
     tokenURIs |-> tokenURIs, tokenIssuer |-> tokenIssuer,
     hasTokenFromIssuer |-> hasTokenFromIssuer]

\* The loop of batchMintSBT from index i on: a failed require of any
\* iteration reverts the call (ok = FALSE).
RECURSIVE BatchMintSBTLoop(_, _, _, _, _)
BatchMintSBTLoop(L, recipients, uris, i, caller) ==
    IF i > Len(recipients) THEN L
    ELSE LET to == recipients[i]
             uri == uris[i]
             tokenId == L.uriNextTokenId
         IN  IF \/ to = Zero
                \/ uri = ""
                \/ L.hasTokenFromIssuer[to][caller]
                \/ tokenId > MaxUriTokens
             THEN [L EXCEPT !.ok = FALSE]
             ELSE BatchMintSBTLoop(
                    [ok |-> TRUE,
                     uriNextTokenId |-> tokenId + 1,
                     uriOwners |-> [L.uriOwners EXCEPT ![tokenId] = to],
                     tokenURIs |-> [L.tokenURIs EXCEPT ![tokenId] = uri],
                     tokenIssuer |-> [L.tokenIssuer EXCEPT ![tokenId] = caller],
                     hasTokenFromIssuer |->
                        [L.hasTokenFromIssuer EXCEPT ![to][caller] = TRUE]],
                    recipients, uris, i + 1, caller)

batchMintSBT(caller, recipients, uris) ==
    /\ isAuthorizedIssuer(caller)
    /\ ~uriPaused
    /\ Len(recipients) > 0
    /\ Len(recipients) = Len(uris)
    /\ Len(recipients) <= BatchLimit
    /\ LET L == BatchMintSBTLoop(UriLedgerState, recipients, uris, 1, caller)
       IN  /\ L.ok
           /\ uriNextTokenId' = L.uriNextTokenId
           /\ uriOwners' = L.uriOwners
           /\ tokenURIs' = L.tokenURIs
           /\ tokenIssuer' = L.tokenIssuer
           /\ hasTokenFromIssuer' = L.hasTokenFromIssuer
    /\ UNCHANGED <<tokenRevoked, uriPaused, otherVars>>

\* validToken of the URI-based ledger
UriLedger_validToken(tokenId) ==
    /\ tokenId \in UriTokenIds
    /\ uriOwners[tokenId] # Zero
    /\ ~tokenRevoked[tokenId]

UriLedger_revokeSBT(caller, tokenId) ==
    /\ UriLedger_validToken(tokenId)
    /\ ~uriPaused
    /\ caller = tokenIssuer[tokenId] \/ caller = Admin
    /\ LET tokenOwnerAddr == uriOwners[tokenId]
           issuer == tokenIssuer[tokenId]
       IN  /\ tokenRevoked' = [tokenRevoked EXCEPT ![tokenId] = TRUE]
           /\ hasTokenFromIssuer' =
                 [hasTokenFromIssuer EXCEPT ![tokenOwnerAddr][issuer] = FALSE]
    /\ UNCHANGED <<uriNextTokenId, uriOwners, tokenURIs, tokenIssuer,
                   uriPaused, otherVars>>

UriLedger_pause(caller) ==
    /\ caller = Admin
    /\ ~uriPaused
    /\ uriPaused' = TRUE
    /\ UNCHANGED <<uriNextTokenId, uriOwners, tokenURIs, tokenIssuer,
                   tokenRevoked, hasTokenFromIssuer, otherVars>>

UriLedger_unpause(caller) ==
    /\ caller = Admin
    /\ uriPaused
    /\ uriPaused' = FALSE
    /\ UNCHANGED <<uriNextTokenId, uriOwners, tokenURIs, tokenIssuer,
                   tokenRevoked, hasTokenFromIssuer, otherVars>>

\* ========================================================== specification
Init ==
    /\ issuers = [a \in Addrs \cup {Zero} |->
                    IF a = Admin
                    THEN [name |-> "System Admin", organization |-> "SBT System",
                          authorized |-> TRUE]
                    ELSE NoIssuer]
    /\ issuerAddresses = <<Admin>>
    /\ registryPaused = FALSE
    /\ templateIdCounter = 0
    /\ templates = [t \in TemplateIds |-> NoTemplate]
    /\ templatePaused = FALSE
    /\ sessions = [s \in SessionIds |-> EmptySession]
    /\ sessionNonce = 0
    /\ sbtTokenContract = Ledger
    /\ sessionPaused = FALSE
    /\ nextTokenId = 1
    /\ tokenOwner = [k \in TokenIds |-> Zero]
    /\ sbtData = [k \in TokenIds |-> NoSBTData]
    /\ hasTokenFromTemplate = [a \in Addrs |-> [t \in TemplateIds |-> FALSE]]
    /\ hasTokenFromSession = [a \in Addrs |-> [s \in SessionIds |-> FALSE]]
    /\ tokenPaused = FALSE
    /\ tokenApprovals = [k \in TokenIds |-> Zero]
    /\ operatorApprovals = {}
    /\ uriNextTokenId = 1
    /\ uriOwners = [k \in UriTokenIds |-> Zero]
    /\ tokenURIs = [k \in UriTokenIds |-> ""]
    /\ tokenIssuer = [k \in UriTokenIds |-> Zero]
    /\ tokenRevoked = [k \in UriTokenIds |-> FALSE]
    /\ hasTokenFromIssuer = [a \in Addrs |-> [i \in Addrs |-> FALSE]]
    /\ uriPaused = FALSE
    /\ _status = NOT_ENTERED
    /\ frame = NoFrame
    /\ now = 0

\* ------------------------------------------------ inputs of the operations
Batches ==
    {<<>>} \cup UNION {[1..n -> Recipients] : n \in 1..MaxBatch}
           \cup {[i \in 1..(BatchLimit + 1) |-> "u1"]}

Callers == {Admin} \cup Users
FirstText == <<"Workshop", "attended">>
Texts == {FirstText, <<"Course", "passed">>}
Titles == {"Launch"}

CreateTemplateStep(texts) ==
    \E c \in Callers, x \in texts :
       templateIdCounter < MaxLedgerTemplates /\ createTemplate(c, x[1], x[2])
UpdateTemplateStep ==
    \E c \in Callers, t \in TemplateIds, x \in Texts :
       updateTemplate(c, t, x[1], x[2])
DeactivateTemplateStep ==
    \E c \in Callers, t \in TemplateIds : deactivateTemplate(c, t)
ReactivateTemplateStep ==
    \E c \in Callers, t \in TemplateIds : reactivateTemplate(c, t)
CreateSessionStep(cap) ==
    \E c \in Callers, t \in TemplateIds, m \in 1..MaxMints, ti \in Titles,
       s \in SessionIds :
       sessionNonce < cap /\ createSession(c, t, m, 1, ti, s)
EndSessionStep ==
    \E c \in Callers, s \in SessionIds : endSession(c, s)
MintFromTemplateStep ==
    \E c \in Callers, to \in Recipients, t \in TemplateIds :
       mintFromTemplate(c, to, t)
MintFromSessionStep ==
    \E c \in Callers, to \in Recipients, s \in SessionIds :
       mintFromSession(c, to, s)
ClaimFromSessionStep ==
    \E c \in Callers, s \in SessionIds : claimFromSession(c, s)
BatchMintFromSessionStep ==
    \E c \in Callers, r \in Batches, s \in SessionIds :
       batchMintFromSession(c, r, s)
RevokeSBTStep ==
    \E c \in Callers, k \in TokenIds : revokeSBT(c, k)

\* The ledger without the clock: every session stays inside its window.
Next ==
    \/ CreateTemplateStep({FirstText})
    \/ DeactivateTemplateStep
    \/ ReactivateTemplateStep
    \/ CreateSessionStep(MaxSessions)
    \/ EndSessionStep
    \/ MintFromTemplateStep
    \/ MintFromSessionStep
    \/ ClaimFromSessionStep
    \/ BatchMintFromSessionStep
    \/ RevokeSBTStep

Spec == Init /\ [][Next]_vars

\* One session at a time, with the clock running past its expiry.
NextClock ==
    \/ CreateTemplateStep({FirstText})
    \/ CreateSessionStep(MaxClockSessions)
    \/ EndSessionStep
    \/ MintFromTemplateStep
    \/ MintFromSessionStep
    \/ ClaimFromSessionStep
    \/ BatchMintFromSessionStep
    \/ RevokeSBTStep
    \/ Tick

SpecClock == Init /\ [][NextClock]_vars

\* Template text edits against tokens minted before and after them.
NextText ==
    \/ CreateTemplateStep(Texts)
    \/ UpdateTemplateStep
    \/ DeactivateTemplateStep
    \/ ReactivateTemplateStep
    \/ CreateSessionStep(MaxClockSessions)
    \/ MintFromTemplateStep
    \/ MintFromSessionStep
    \/ ClaimFromSessionStep
    \/ BatchMintFromSessionStep

SpecText == Init /\ [][NextText]_vars

\* The issuer registry on its own: any identity calls, with good and bad
\* arguments.
IssuerNames == {"", "Uni", "Lab"}
Organizations == {"Org"}

AddIssuerStep ==
    \E c \in Addrs, i \in Addrs \cup {Zero}, n \in IssuerNames,
       o \in Organizations : addIssuer(c, i, n, o)
RemoveIssuerStep ==
    \E c \in Addrs, i \in Addrs \cup {Zero} : removeIssuer(c, i)
UpdateIssuerStep ==
    \E c \in Addrs, i \in Addrs \cup {Zero}, n \in IssuerNames,
       o \in Organizations : updateIssuer(c, i, n, o)
RegistryPauseStep == \E c \in Addrs : IssuerRegistry_pause(c)
RegistryUnpauseStep == \E c \in Addrs : IssuerRegistry_unpause(c)

NextRegistry ==
    \/ AddIssuerStep
    \/ RemoveIssuerStep
    \/ UpdateIssuerStep
    \/ RegistryPauseStep
    \/ RegistryUnpauseStep

SpecRegistry == Init /\ [][NextRegistry]_vars

\* The four pause switches against one entry point or more of every contract,
\* with at most MaxPauseTokens tokens minted.
TemplatePauseStep == \E c \in Callers : SBTTemplate_pause(c)
TemplateUnpauseStep == \E c \in Callers : SBTTemplate_unpause(c)
SessionPauseStep == \E c \in Callers : SBTSession_pause(c)
SessionUnpauseStep == \E c \in Callers : SBTSession_unpause(c)
TokenPauseStep == \E c \in Callers : SBTToken_pause(c)
TokenUnpauseStep == \E c \in Callers : SBTToken_unpause(c)

NextPause ==
    \/ RegistryPauseStep
    \/ RegistryUnpauseStep
    \/ TemplatePauseStep
    \/ TemplateUnpauseStep
    \/ SessionPauseStep
    \/ SessionUnpauseStep
    \/ TokenPauseStep
    \/ TokenUnpauseStep
    \/ addIssuer(Admin, IssuerB, "Uni", "Org")
    \/ removeIssuer(Admin, IssuerB)
    \/ updateIssuer(Admin, IssuerB, "Lab", "Org")
    \/ CreateTemplateStep({FirstText})
    \/ UpdateTemplateStep
    \/ DeactivateTemplateStep
    \/ ReactivateTemplateStep
    \/ CreateSessionStep(MaxClockSessions)
    \/ EndSessionStep
    \/ nextTokenId <= MaxPauseTokens /\ MintFromTemplateStep
    \/ nextTokenId <= MaxPauseTokens /\ MintFromSessionStep
    \/ nextTokenId <= MaxPauseTokens /\ ClaimFromSessionStep
    \/ nextTokenId <= MaxPauseTokens /\ BatchMintFromSessionStep
    \/ RevokeSBTStep

SpecPause == Init /\ [][NextPause]_vars

\* Several issuers: the administrator authorizes IssuerB and u1, any identity
\* calls the ledger, and at most MaxIssuerTokens tokens are minted.
NewIssuers == {IssuerB, "u1"}

NextIssuers ==
    \/ \E i \in NewIssuers : addIssuer(Admin, i, "Uni", "Org")
    \/ \E i \in NewIssuers : removeIssuer(Admin, i)
    \/ \E c \in Addrs :
          /\ templateIdCounter < MaxLedgerTemplates
          /\ createTemplate(c, "Workshop", "attended")
    \/ \E c \in Addrs, t \in TemplateIds, s \in SessionIds :
          /\ sessionNonce < MaxClockSessions
          /\ createSession(c, t, MaxMints, 1, "Launch", s)
    \/ \E c \in Addrs, to \in Recipients, t \in TemplateIds :
          nextTokenId <= MaxIssuerTokens /\ mintFromTemplate(c, to, t)
    \/ \E c \in Addrs, to \in Recipients, s \in SessionIds :
          nextTokenId <= MaxIssuerTokens /\ mintFromSession(c, to, s)
    \/ \E c \in Addrs, s \in SessionIds :
          nextTokenId <= MaxIssuerTokens /\ claimFromSession(c, s)
    \/ \E c \in Addrs, r \in Batches, s \in SessionIds :
          nextTokenId <= MaxIssuerTokens /\ batchMintFromSession(c, r, s)
    \/ \E c \in Addrs, k \in TokenIds : revokeSBT(c, k)

SpecIssuers == Init /\ [][NextIssuers]_vars

\* Templates and sessions of two issuers: the administrator authorizes and
\* removes IssuerB, any identity calls the template store and the session
\* manager with good and bad arguments, and the clock runs.
BadTexts == {<<"", "attended">>, <<"Workshop", "">>}
AllTexts == Texts \cup BadTexts

NextCatalog ==
    \/ addIssuer(Admin, IssuerB, "Uni", "Org")
    \/ removeIssuer(Admin, IssuerB)
    \/ \E c \in Addrs, x \in AllTexts : createTemplate(c, x[1], x[2])
    \/ \E c \in Addrs, t \in TemplateIds, x \in AllTexts :
          updateTemplate(c, t, x[1], x[2])
    \/ \E c \in Addrs, t \in TemplateIds : deactivateTemplate(c, t)
    \/ \E c \in Addrs, t \in TemplateIds : reactivateTemplate(c, t)
    \/ \E c \in Addrs, t \in 0..(MaxTemplates + 1), m \in 0..MaxMints,
          d \in 0..MaxDuration, s \in SessionIds :
          /\ sessionNonce < MaxClockSessions
          /\ createSession(c, t, m, d, "Launch", s)
    \/ \E c \in Addrs, s \in SessionIds : endSession(c, s)
    \/ Tick

SpecCatalog == Init /\ [][NextCatalog]_vars

\* The life of one session: the owner may register another address as the
\* token contract, any identity calls the session manager and the ledger,
\* and the clock runs past the expiry.
LedgerAddrs == {Zero, Ledger, "u1"}

NextSession ==
    \/ addIssuer(Admin, IssuerB, "Uni", "Org")
    \/ removeIssuer(Admin, IssuerB)
    \/ \E c \in Addrs :
          /\ templateIdCounter < MaxLedgerTemplates
          /\ createTemplate(c, "Workshop", "attended")
    \/ \E c \in Addrs, t \in TemplateIds, m \in 1..MaxMints, s \in SessionIds :
          /\ sessionNonce < MaxClockSessions
          /\ createSession(c, t, m, 1, "Launch", s)
    \/ \E c \in Addrs, s \in SessionIds : endSession(c, s)
    \/ \E c \in Addrs, a \in LedgerAddrs : setSBTTokenContract(c, a)
    \/ \E c \in Addrs, s \in SessionIds :
          /\ sessions[s].currentMints <= MaxMints
          /\ callIncrementMintCount(c, s)
    \/ \E c \in Addrs, to \in Recipients, s \in SessionIds :
          nextTokenId <= MaxIssuerTokens /\ mintFromSession(c, to, s)
    \/ \E c \in Addrs, s \in SessionIds :
          nextTokenId <= MaxIssuerTokens /\ claimFromSession(c, s)
    \/ \E c \in Addrs, k \in TokenIds : revokeSBT(c, k)
    \/ Tick

SpecSession == Init /\ [][NextSession]_vars

\* ---- an issuer that is removed after it created templates and sessions
NextDeauth ==
    \/ addIssuer(Admin, IssuerB, "Uni", "Org")
    \/ removeIssuer(Admin, IssuerB)
    \/ \E c \in Addrs :
          /\ templateIdCounter < MaxLedgerTemplates
          /\ createTemplate(c, "Workshop", "attended")
    \/ \E c \in Addrs, t \in TemplateIds, x \in Texts :
          updateTemplate(c, t, x[1], x[2])
    \/ \E c \in Addrs, t \in TemplateIds : deactivateTemplate(c, t)
    \/ \E c \in Addrs, t \in TemplateIds : reactivateTemplate(c, t)
    \/ \E c \in Addrs, t \in TemplateIds, s \in SessionIds :
          /\ sessionNonce < MaxClockSessions
          /\ createSession(c, t, MaxMints, 1, "Launch", s)
    \/ \E c \in Addrs, s \in SessionIds : endSession(c, s)
    \/ \E c \in Addrs, to \in Recipients, t \in TemplateIds :
          nextTokenId <= MaxIssuerTokens /\ mintFromTemplate(c, to, t)
    \/ \E c \in Addrs, to \in Recipients, s \in SessionIds :
          nextTokenId <= MaxIssuerTokens /\ mintFromSession(c, to, s)
    \/ \E c \in Addrs, s \in SessionIds :
          nextTokenId <= MaxIssuerTokens /\ claimFromSession(c, s)
    \/ \E c \in Addrs, r \in Batches, s \in SessionIds :
          nextTokenId <= MaxIssuerTokens /\ batchMintFromSession(c, r, s)
    \/ \E c \in Addrs, k \in TokenIds : revokeSBT(c, k)

SpecDeauth == Init /\ [][NextDeauth]_vars


\* ---- mints to a recipient whose receive hook calls back
\* A mint function that runs in one step: at top level when no recipient
\* has code, inside a hook when a contract sends it.
Atomic(c, recipients) ==
    IF TopLevel THEN \A n \in 1..Len(recipients) : recipients[n] \notin Contracts
    ELSE c \in Contracts

NextReentrant ==
    \/ TopLevel /\ addIssuer(Admin, "u2", "Uni", "Org")
    \/ \E c \in Addrs :
          /\ Sender(c)
          /\ templateIdCounter < MaxLedgerTemplates
          /\ createTemplate(c, "Workshop", "attended")
    \/ \E c \in Addrs, t \in TemplateIds : Sender(c) /\ deactivateTemplate(c, t)
    \/ \E c \in Addrs, t \in TemplateIds, s \in SessionIds :
          /\ Sender(c)
          /\ sessionNonce < MaxClockSessions
          /\ createSession(c, t, MaxMints, 1, "Launch", s)
    \/ \E c \in Addrs, s \in SessionIds : Sender(c) /\ endSession(c, s)
    \/ \E c \in Addrs, to \in Recipients, t \in TemplateIds :
          Atomic(c, <<to>>) /\ mintFromTemplate(c, to, t)
    \/ \E c \in Addrs, to \in Recipients, s \in SessionIds :
          Atomic(c, <<to>>) /\ mintFromSession(c, to, s)
    \/ \E c \in Addrs, s \in SessionIds :
          Atomic(c, <<c>>) /\ claimFromSession(c, s)
    \/ \E c \in Addrs, r \in Batches, s \in SessionIds :
          Atomic(c, r) /\ batchMintFromSession(c, r, s)
    \/ \E c \in Addrs, to \in Recipients, t \in TemplateIds :
          mintFromTemplate_Enter(c, to, t)
    \/ \E c \in Addrs, to \in Recipients, s \in SessionIds :
          mintFromSession_Enter(c, to, s)
    \/ \E c \in Addrs, s \in SessionIds : claimFromSession_Enter(c, s)
    \/ \E c \in Addrs, r \in Batches, s \in SessionIds :
          batchMintFromSession_Enter(c, r, s)
    \/ Mint_Return
    \/ Mint_Revert
    \/ \E c \in Addrs, k \in TokenIds : Sender(c) /\ revokeSBT(c, k)

SpecReentrant == Init /\ [][NextReentrant]_vars

\* ---- the URI-based ledger with its registry
Uri == "ipfs://a"
Uris == {"", Uri}
\* For each recipient list: matching URIs, one empty URI, one URI too few.
UrisFor(r) ==
    {[i \in 1..Len(r) |-> Uri]}
      \cup (IF Len(r) > 0 /\ Len(r) <= MaxBatch
            THEN {[i \in 1..Len(r) |-> IF i = Len(r) THEN "" ELSE Uri],
                  [i \in 1..(Len(r) - 1) |-> Uri]}
            ELSE {})
UriBatches == UNION {{<<r, u>> : u \in UrisFor(r)} : r \in Batches}

NextUri ==
    \/ addIssuer(Admin, IssuerB, "Uni", "Org")
    \/ removeIssuer(Admin, IssuerB)
    \/ \E c \in Addrs, to \in Recipients, uri \in Uris : mintSBT(c, to, uri)
    \/ \E c \in Addrs, b \in UriBatches : batchMintSBT(c, b[1], b[2])
    \/ \E c \in Addrs, k \in UriTokenIds : UriLedger_revokeSBT(c, k)
    \/ \E c \in Addrs : UriLedger_pause(c)
    \/ \E c \in Addrs : UriLedger_unpause(c)

SpecUri == Init /\ [][NextUri]_vars


\* ================================================================= claims
Exists(k) == tokenOwner[k] # Zero
Live(k) == Exists(k) /\ ~sbtData[k].revoked
LiveOfTemplate(o, t) ==
    {k \in TokenIds : Live(k) /\ tokenOwner[k] = o /\ sbtData[k].templateId = t}
LiveOfSession(o, s) ==
    {k \in TokenIds : Live(k) /\ tokenOwner[k] = o /\ sbtData[k].sessionId = s}
TokensOfSession(s) ==
    {k \in TokenIds : Exists(k) /\ sbtData[k].sessionId = s}

\* C1: in every reachable state, for every recipient o and template t, at
\* most one non-revoked token has owner o and source template t, whichever
\* mint path (template, session, claim, batch) created the tokens.
C1_OneLiveTokenPerOwnerTemplate ==
    \A o \in Addrs, t \in TemplateIds : Cardinality(LiveOfTemplate(o, t)) <= 1

\* C2: in every reachable state, for every recipient o and session s, at most
\* one non-revoked token has owner o and source session s.
C2_OneLiveTokenPerOwnerSession ==
    \A o \in Addrs, s \in SessionIds : Cardinality(LiveOfSession(o, s)) <= 1

\* C2 witness: an owner was revoked and reissued in the same session.
C2_Witness ==
    \E o \in Users, s \in SessionIds, k1, k2 \in TokenIds :
       /\ k1 # k2
       /\ tokenOwner[k1] = o /\ tokenOwner[k2] = o
       /\ sbtData[k1].sessionId = s /\ sbtData[k2].sessionId = s
       /\ sbtData[k1].revoked /\ ~sbtData[k2].revoked

\* C3: in every reachable state every session has currentMints <= maxMints.
C3_CurrentMintsWithinMax ==
    \A s \in SessionIds : sessions[s].currentMints <= sessions[s].maxMints

\* C3 witness: a session of capacity two filled to the brim.
C3_Witness ==
    \E s \in SessionIds :
       /\ sessionExists(s)
       /\ sessions[s].maxMints = 2
       /\ sessions[s].currentMints = sessions[s].maxMints

\* C4: for a session with maxMints = M the number of tokens ever created from
\* it (revoked or not) never exceeds M, and every value currentMints takes
\* while an admitted batch runs its increments stays within M.
C4_NeverMoreThanMaxTokens ==
    \A s \in SessionIds :
       /\ Cardinality(TokensOfSession(s)) <= sessions[s].maxMints
       /\ \A c \in Callers, r \in Batches :
             ENABLED batchMintFromSession(c, r, s) =>
                \A n \in 0..Len(r) :
                   BatchIncrementLoop(sessions, s, n)[s].currentMints
                      <= sessions[s].maxMints

\* C4 witness: a full session of capacity two, one of whose tokens is revoked
\* (the revocation did not reopen the session).
C4_Witness ==
    \E s \in SessionIds :
       /\ sessions[s].maxMints = 2
       /\ Cardinality(TokensOfSession(s)) = 2
       /\ \E k \in TokensOfSession(s) : sbtData[k].revoked

\* The cases in which a batch must be refused as a whole.
BadBatch(r, s) ==
    \/ sessions[s].currentMints + Len(r) > sessions[s].maxMints
    \/ Len(r) = 0
    \/ Len(r) > 100
    \/ \E i \in 1..Len(r) : r[i] = Zero
    \/ \E i, j \in 1..Len(r) : i < j /\ r[i] = r[j]
    \/ \E i \in 1..Len(r) : LiveOfSession(r[i], s) # {}

\* C5: batchMintFromSession is all-or-nothing: a batch that exceeds the
\* remaining capacity, is empty or longer than 100, or names the zero address,
\* a recipient twice or a holder of a non-revoked token of the session, is
\* refused as a whole (no step of the ledger), wherever the bad recipient
\* stands in the list.
C5_BatchAllOrNothing ==
    \A c \in Callers, r \in Batches, s \in SessionIds :
       BadBatch(r, s) => ~ENABLED batchMintFromSession(c, r, s)

\* C5 witness: a session with room for two in which u1 alone would be
\* admitted, while the lists <<u1, u1>> and <<u1, zero>> are bad only in
\* their second entry and are refused.
C5_Witness ==
    \E c \in Callers, s \in SessionIds :
       /\ sessions[s].currentMints + 2 <= sessions[s].maxMints
       /\ nextTokenId + 1 <= MaxTokens
       /\ ENABLED batchMintFromSession(c, <<"u1">>, s)
       /\ BadBatch(<<"u1", "u1">>, s)
       /\ BadBatch(<<"u1", Zero>>, s)
       /\ ~ENABLED batchMintFromSession(c, <<"u1", "u1">>, s)
       /\ ~ENABLED batchMintFromSession(c, <<"u1", Zero>>, s)

\* C6: for every existing session that was ended, or has expired, or is full,
\* isSessionClaimable is false and no mintFromSession, claimFromSession or
\* batchMintFromSession call on it can succeed.
C6_ClosedSessionAdmitsNoMint ==
    \A s \in SessionIds :
       (/\ sessions[s].issuer # Zero
        /\ \/ ~sessions[s].active
           \/ now > sessions[s].endTimestamp
           \/ sessions[s].currentMints = sessions[s].maxMints)
       => /\ ~isSessionClaimable(s)
          /\ \A c \in Callers :
                /\ ~ENABLED claimFromSession(c, s)
                /\ \A to \in Recipients : ~ENABLED mintFromSession(c, to, s)
                /\ \A r \in Batches : ~ENABLED batchMintFromSession(c, r, s)

\* C6 witness: a session closed by expiry alone (still active, not full, a
\* token id and a recipient without a token left).
C6_Witness ==
    \E s \in SessionIds :
       /\ sessions[s].issuer # Zero
       /\ sessions[s].active
       /\ sessions[s].currentMints < sessions[s].maxMints
       /\ now > sessions[s].endTimestamp
       /\ nextTokenId <= MaxTokens
       /\ \E u \in Users : ~hasTokenFromSession[u][s]

\* C7: isSessionClaimable(id) is true exactly when the session exists, is
\* active, now <= its expiry and currentMints < maxMints; for an id no
\* session has (the null id and an id never handed out included) it is false.
C7_ClaimableIff ==
    \A id \in 0..(MaxSessions + 1) :
       isSessionClaimable(id) <=>
          /\ id \in SessionIds
          /\ sessions[id].issuer # Zero
          /\ sessions[id].active
          /\ now <= sessions[id].endTimestamp
          /\ sessions[id].currentMints < sessions[id].maxMints

\* C7 witness: the last instant of the window (now = expiry), still claimable.
C7_Witness ==
    \E s \in SessionIds :
       /\ isSessionClaimable(s)
       /\ now = sessions[s].endTimestamp

\* C8: while r holds a non-revoked token of template t, no mint to r against
\* t succeeds through any mint path (direct, or mint, claim or batch on a
\* session of t).
C8_SecondMintFails ==
    \A r \in Users, t \in TemplateIds :
       LiveOfTemplate(r, t) # {} =>
          /\ \A c \in Callers : ~ENABLED mintFromTemplate(c, r, t)
          /\ \A s \in SessionIds :
                sessions[s].templateId = t =>
                   /\ ~ENABLED claimFromSession(r, s)
                   /\ \A c \in Callers :
                         /\ ~ENABLED mintFromSession(c, r, s)
                         /\ ~ENABLED batchMintFromSession(c, <<r>>, s)

\* C9: a step that revokes token k clears the (owner, template) marker and,
\* when k has a source session, the (owner, session) marker, and leaves the
\* session table (currentMints, maxMints, active, expiry) as it was.
C9_RevokeFrame ==
    [][\A k \in TokenIds :
          (Live(k) /\ sbtData'[k].revoked) =>
             /\ ~hasTokenFromTemplate'[tokenOwner[k]][sbtData[k].templateId]
             /\ sbtData[k].sessionId # NoSession =>
                   ~hasTokenFromSession'[tokenOwner[k]][sbtData[k].sessionId]
             /\ sessions' = sessions
             /\ sessionNonce' = sessionNonce]_vars

\* C9 witness: a revoked session token whose owner's two markers are clear
\* while the session still counts the mint.
C9_Witness ==
    \E k \in TokenIds :
       /\ Exists(k)
       /\ sbtData[k].revoked
       /\ sbtData[k].sessionId # NoSession
       /\ ~hasTokenFromSession[tokenOwner[k]][sbtData[k].sessionId]
       /\ ~hasTokenFromTemplate[tokenOwner[k]][sbtData[k].templateId]
       /\ sessions[sbtData[k].sessionId].currentMints
             = Cardinality(TokensOfSession(sbtData[k].sessionId))

\* C10: a token is created with the name and description its template has at
\* that step, and no step (updateTemplate, deactivateTemplate and
\* reactivateTemplate included) changes the name, description, issuer,
\* template id or session id of a token that exists.
C10_TokenTextFrozen ==
    [][\A k \in TokenIds :
          /\ (~Exists(k) /\ tokenOwner'[k] # Zero) =>
                /\ sbtData'[k].templateId \in TemplateIds
                /\ sbtData'[k].name = templates[sbtData'[k].templateId].name
                /\ sbtData'[k].description
                      = templates[sbtData'[k].templateId].description
          /\ Exists(k) =>
                /\ sbtData'[k].name = sbtData[k].name
                /\ sbtData'[k].description = sbtData[k].description
                /\ sbtData'[k].issuer = sbtData[k].issuer
                /\ sbtData'[k].templateId = sbtData[k].templateId
                /\ sbtData'[k].sessionId = sbtData[k].sessionId]_vars

\* C10 witness: a token that kept the old text of a template edited since,
\* next to a token minted from the same template after the edit.
C10_Witness ==
    \E k1, k2 \in TokenIds :
       /\ Exists(k1) /\ Exists(k2)
       /\ sbtData[k1].templateId = sbtData[k2].templateId
       /\ sbtData[k1].name # templates[sbtData[k1].templateId].name
       /\ sbtData[k1].description # templates[sbtData[k1].templateId].description
       /\ sbtData[k2].name = templates[sbtData[k2].templateId].name

\* C11: tokens are soulbound.  A transfer of any token between two non-zero
\* identities is refused whoever asks for it, and in every step every token on
\* record keeps its owner and stays on record with the content it was minted
\* with; a revocation only raises the revoked flag.
C11_NonTransferable ==
    [][/\ \A c \in Addrs, f \in Addrs, t \in Addrs, k \in TokenIds :
             ~ENABLED transferFrom(c, f, t, k)
       /\ \A k \in TokenIds :
             Exists(k) =>
                /\ tokenOwner'[k] = tokenOwner[k]
                /\ sbtData'[k] = [sbtData[k] EXCEPT !.revoked = sbtData'[k].revoked]
      ]_vars

\* A revoked token still on record with its owner, beside a live one.
C11_Witness ==
    \E k, j \in TokenIds :
       /\ Exists(k) /\ sbtData[k].revoked /\ tokenOwner[k] \in Users
       /\ Live(j)

\* C12: the approval mutators approve and setApprovalForAll fail for every
\* caller and argument, known token id or not, and no approval is ever
\* stored; the accessors answer every query: getApproved with the null
\* identity, isApprovedForAll with false.
C12_ApprovalsDisabled ==
    /\ \A c \in Addrs, a \in Addrs \cup {Zero}, k \in 0..(MaxTokens + 1) :
          ~ENABLED approve(c, a, k)
    /\ \A c \in Addrs, o \in Addrs \cup {Zero}, b \in BOOLEAN :
          ~ENABLED setApprovalForAll(c, o, b)
    /\ \A k \in 0..(MaxTokens + 1) : getApproved(k) = Zero
    /\ \A o, a \in Addrs \cup {Zero} : isApprovedForAll(o, a) = FALSE
    /\ \A k \in TokenIds : tokenApprovals[k] = Zero
    /\ operatorApprovals = {}

\* The owner of a live token asks to approve another identity for it.
C12_Witness ==
    \E k \in TokenIds :
       /\ Live(k)
       /\ ~ENABLED approve(tokenOwner[k], IssuerB, k)
       /\ getApproved(k) = Zero
       /\ ~isApprovedForAll(tokenOwner[k], IssuerB)

Listed(i) == \E n \in 1..Len(issuerAddresses) : issuerAddresses[n] = i

\* C13: for every identity i other than the bootstrap administrator,
\* isAuthorizedIssuer(i) is false as long as i was never added, turns true
\* only in a successful addIssuer(i) step and false only in a successful
\* removeIssuer(i) step; a successful addIssuer(i) leaves it true and a
\* successful removeIssuer(i) leaves it false.
C13_AuthorizedBetweenAddAndRemove ==
    [][\A i \in Addrs \ {Admin} :
          /\ ~Listed(i) => ~isAuthorizedIssuer(i)
          /\ (~isAuthorizedIssuer(i) /\ isAuthorizedIssuer(i)') =>
                \E n \in IssuerNames, o \in Organizations :
                   addIssuer(Admin, i, n, o)
          /\ (isAuthorizedIssuer(i) /\ ~isAuthorizedIssuer(i)') =>
                removeIssuer(Admin, i)
          /\ (\E c \in Addrs, n \in IssuerNames, o \in Organizations :
                 addIssuer(c, i, n, o)) => isAuthorizedIssuer(i)'
          /\ (\E c \in Addrs : removeIssuer(c, i)) => ~isAuthorizedIssuer(i)'
      ]_vars

\* One added issuer still authorized, one removed (listed, flag cleared) and
\* one never added.
C13_Witness ==
    /\ isAuthorizedIssuer(IssuerB) /\ issuers[IssuerB].name = "Lab"
    /\ Listed("u1") /\ ~isAuthorizedIssuer("u1")
    /\ ~Listed("u2")
    /\ issuerAddresses = <<Admin, "u1", IssuerB>>

C15_RegistryAdminOnly ==
    [][/\ \A c \in Addrs \ {Admin} :
             /\ \A i \in Addrs \cup {Zero}, n \in IssuerNames,
                   o \in Organizations :
                   /\ ~ENABLED addIssuer(c, i, n, o)
                   /\ ~ENABLED updateIssuer(c, i, n, o)
             /\ \A i \in Addrs \cup {Zero} : ~ENABLED removeIssuer(c, i)
             /\ ~ENABLED IssuerRegistry_pause(c)
             /\ ~ENABLED IssuerRegistry_unpause(c)
       /\ registryVars' # registryVars =>
             \/ \E i \in Addrs, n \in IssuerNames, o \in Organizations :
                   addIssuer(Admin, i, n, o) \/ updateIssuer(Admin, i, n, o)
             \/ \E i \in Addrs : removeIssuer(Admin, i)
             \/ IssuerRegistry_pause(Admin)
             \/ IssuerRegistry_unpause(Admin)
      ]_vars

\* An authorized issuer that is not the administrator asks to add a new
\* issuer with arguments the administrator would get through.
C15_Witness ==
    /\ isAuthorizedIssuer(IssuerB)
    /\ ENABLED addIssuer(Admin, "u1", "Uni", "Org")
    /\ ~ENABLED addIssuer(IssuerB, "u1", "Uni", "Org")
    /\ ~ENABLED IssuerRegistry_pause(IssuerB)

\* C16: addIssuer is refused when the named identity is already authorized,
\* when the name is empty and when the identity is the null identity;
\* removeIssuer and updateIssuer are refused when the named identity is not
\* authorized; updateIssuer is refused when the name is empty.
C16_RegistryArgumentChecks ==
    \A c \in Addrs, i \in Addrs \cup {Zero}, n \in IssuerNames,
       o \in Organizations :
       /\ (isAuthorizedIssuer(i) \/ n = "" \/ i = Zero) =>
             ~ENABLED addIssuer(c, i, n, o)
       /\ ~isAuthorizedIssuer(i) =>
             ~ENABLED removeIssuer(c, i) /\ ~ENABLED updateIssuer(c, i, n, o)
       /\ n = "" => ~ENABLED updateIssuer(c, i, n, o)

\* The administrator, registry not paused, with one issuer authorized and one
\* removed: only the empty name stands between it and an update, only the
\* flag between it and a second removal or a second addition.
C16_Witness ==
    /\ ~registryPaused
    /\ isAuthorizedIssuer(IssuerB)
    /\ Listed("u1") /\ ~isAuthorizedIssuer("u1")
    /\ ENABLED updateIssuer(Admin, IssuerB, "Uni", "Org")
    /\ ~ENABLED updateIssuer(Admin, IssuerB, "", "Org")
    /\ ~ENABLED addIssuer(Admin, IssuerB, "Uni", "Org")
    /\ ~ENABLED removeIssuer(Admin, "u1")
    /\ ~ENABLED updateIssuer(Admin, "u1", "Uni", "Org")
    /\ ENABLED addIssuer(Admin, "u1", "Uni", "Org")
    /\ ~ENABLED addIssuer(Admin, "u1", "", "Org")

\* Every call of a contract's gated entry points is refused, whatever the
\* caller and the arguments.
RegistryEntryPointsOff ==
    \A c \in Addrs, i \in Addrs \cup {Zero}, n \in IssuerNames,
       o \in Organizations :
       /\ ~ENABLED addIssuer(c, i, n, o)
       /\ ~ENABLED removeIssuer(c, i)
       /\ ~ENABLED updateIssuer(c, i, n, o)
TemplateEntryPointsOff ==
    \A c \in Addrs, t \in TemplateIds, x \in Texts :
       /\ ~ENABLED createTemplate(c, x[1], x[2])
       /\ ~ENABLED updateTemplate(c, t, x[1], x[2])
       /\ ~ENABLED deactivateTemplate(c, t)
       /\ ~ENABLED reactivateTemplate(c, t)
SessionEntryPointsOff ==
    \A c \in Addrs, t \in TemplateIds, m \in 1..MaxMints, ti \in Titles,
       s \in SessionIds :
       /\ ~ENABLED createSession(c, t, m, 1, ti, s)
       /\ ~ENABLED endSession(c, s)
IncrementMintCountOff ==
    \A s \in SessionIds : ~CanIncrement(sbtTokenContract, s)
TokenEntryPointsOff ==
    /\ \A c \in Addrs, to \in Recipients, t \in TemplateIds :
          ~ENABLED mintFromTemplate(c, to, t)
    /\ \A c \in Addrs, to \in Recipients, s \in SessionIds :
          ~ENABLED mintFromSession(c, to, s)
    /\ \A c \in Addrs, s \in SessionIds : ~ENABLED claimFromSession(c, s)
    /\ \A c \in Addrs, r \in Batches, s \in SessionIds :
          ~ENABLED batchMintFromSession(c, r, s)
    /\ \A c \in Addrs, k \in TokenIds : ~ENABLED revokeSBT(c, k)

\* C17 as stated: while the administrator's pause flag (the registry's) is
\* set, every mutating entry point of the registry, the template store, the
\* session manager and the token ledger fails, incrementMintCount included.
C17_AdminPauseGatesAll ==
    registryPaused =>
       /\ RegistryEntryPointsOff
       /\ TemplateEntryPointsOff
       /\ SessionEntryPointsOff
       /\ IncrementMintCountOff
       /\ TokenEntryPointsOff

\* C17: each of the four contracts has its own pause flag.  While a
\* contract's flag is set, its own gated entry points fail: addIssuer,
\* removeIssuer, updateIssuer for the registry; createTemplate,
\* updateTemplate, deactivateTemplate, reactivateTemplate for the template
\* store; createSession, endSession for the session manager; the four mint
\* paths and revokeSBT for the ledger.  While a contract's flag is clear its
\* entry points work whenever their other preconditions hold, whatever the
\* other three flags say; incrementMintCount is gated by no flag, so a
\* session mint goes through while the session manager is paused.
C17_PausePerContract ==
    /\ registryPaused => RegistryEntryPointsOff
    /\ templatePaused => TemplateEntryPointsOff
    /\ sessionPaused => SessionEntryPointsOff
    /\ tokenPaused => TokenEntryPointsOff
    /\ (~registryPaused /\ ~isAuthorizedIssuer("u1")) =>
          ENABLED addIssuer(Admin, "u1", "Uni", "Org")
    /\ (~registryPaused /\ isAuthorizedIssuer(IssuerB)) =>
          ENABLED removeIssuer(Admin, IssuerB)
    /\ (~templatePaused /\ templateIdCounter < MaxTemplates) =>
          ENABLED createTemplate(Admin, "Workshop", "attended")
    /\ \A t \in TemplateIds :
          (~templatePaused /\ templateExists(t) /\ templates[t].active) =>
             ENABLED deactivateTemplate(templates[t].issuer, t)
    /\ \A s \in SessionIds :
          (~sessionPaused /\ sessionExists(s) /\ sessions[s].active) =>
             ENABLED endSession(sessions[s].issuer, s)
    /\ \A k \in TokenIds :
          (~tokenPaused /\ Live(k)) => ENABLED revokeSBT(Admin, k)
    /\ \A u \in Users, s \in SessionIds :
          (/\ ~tokenPaused
           /\ isSessionClaimable(s)
           /\ ~hasTokenFromSession[u][s]
           /\ nextTokenId <= MaxTokens) => ENABLED claimFromSession(u, s)

\* Registry and session manager paused, ledger not: the session cannot be
\* ended, yet a claim from it goes through and counts.
C17_Witness ==
    /\ registryPaused /\ sessionPaused /\ ~tokenPaused
    /\ \E u \in Users, s \in SessionIds :
          /\ sessions[s].active
          /\ ~ENABLED endSession(sessions[s].issuer, s)
          /\ ENABLED claimFromSession(u, s)

\* C18: revokeSBT(caller, tokenId) goes through only if the token exists, is
\* not revoked, and the caller is the token's recorded issuer or the
\* administrator; for the token's owner, for another authorized issuer, for
\* an unknown id and for a revoked token it is refused.
C18_RevokeOnlyByIssuerOrAdmin ==
    \A c \in Addrs, k \in 0..(MaxTokens + 1) :
       ENABLED revokeSBT(c, k) =>
          /\ k \in TokenIds
          /\ Exists(k)
          /\ ~sbtData[k].revoked
          /\ c = sbtData[k].issuer \/ c = Admin

\* A live token issued by IssuerB to u2 while u1 is an authorized issuer too,
\* beside a token already revoked: IssuerB and the administrator may revoke
\* the first, u1 and u2 may not, and nobody may revoke the second.
C18_Witness ==
    \E k, j \in TokenIds :
       /\ Live(k) /\ sbtData[k].issuer = IssuerB /\ tokenOwner[k] = "u2"
       /\ isAuthorizedIssuer("u1")
       /\ ENABLED revokeSBT(IssuerB, k)
       /\ ENABLED revokeSBT(Admin, k)
       /\ ~ENABLED revokeSBT("u1", k)
       /\ ~ENABLED revokeSBT("u2", k)
       /\ Exists(j) /\ sbtData[j].revoked
       /\ \A c \in Addrs : ~ENABLED revokeSBT(c, j)

\* C19: mintFromTemplate(caller, recipient, templateId) goes through only if
\* the caller is an authorized issuer and the owner of the template, the
\* template exists and is active, the recipient is not the null identity and
\* the recipient holds no non-revoked token of that template; when it goes
\* through, the new token has owner = recipient, issuer = caller, the
\* template's id, no source session, revoked = false, and the
\* (recipient, template) marker is set.
C19_MintFromTemplateContract ==
    [][\A c \in Addrs, to \in Recipients, t \in TemplateIds :
          /\ ENABLED mintFromTemplate(c, to, t) =>
                /\ isAuthorizedIssuer(c)
                /\ templateExists(t)
                /\ templates[t].issuer = c
                /\ templates[t].active
                /\ to # Zero
                /\ LiveOfTemplate(to, t) = {}
          /\ mintFromTemplate(c, to, t) =>
                /\ tokenOwner'[nextTokenId] = to
                /\ sbtData'[nextTokenId].issuer = c
                /\ sbtData'[nextTokenId].templateId = t
                /\ sbtData'[nextTokenId].sessionId = NoSession
                /\ ~sbtData'[nextTokenId].revoked
                /\ hasTokenFromTemplate'[to][t]
      ]_vars

\* C20: mintFromSession and batchMintFromSession go through only for a
\* caller that is an authorized issuer and the session's recorded issuer;
\* for another authorized issuer, the administrator or a recipient they are
\* refused; every token they create records the caller as its issuer and the
\* session as its source.
C20_SessionMintOnlyByItsIssuer ==
    [][\A c \in Addrs, s \in SessionIds :
          /\ \A to \in Recipients :
                /\ ENABLED mintFromSession(c, to, s) =>
                      isAuthorizedIssuer(c) /\ sessions[s].issuer = c
                /\ mintFromSession(c, to, s) =>
                      /\ sbtData'[nextTokenId].issuer = c
                      /\ sbtData'[nextTokenId].sessionId = s
          /\ \A r \in Batches :
                /\ ENABLED batchMintFromSession(c, r, s) =>
                      isAuthorizedIssuer(c) /\ sessions[s].issuer = c
                /\ batchMintFromSession(c, r, s) =>
                      \A k \in nextTokenId..(nextTokenId' - 1) :
                         /\ sbtData'[k].issuer = c
                         /\ sbtData'[k].sessionId = s
      ]_vars

\* IssuerB has minted from its own session, which is still claimable, while
\* the administrator and u1 are authorized issuers too: the next mint is
\* open to IssuerB and to nobody else.
C20_Witness ==
    \E s \in SessionIds, k \in TokenIds :
       /\ sessions[s].issuer = IssuerB
       /\ Live(k) /\ sbtData[k].sessionId = s /\ sbtData[k].issuer = IssuerB
       /\ tokenOwner[k] = "u1"
       /\ isAuthorizedIssuer("u1") /\ isAuthorizedIssuer(Admin)
       /\ ENABLED mintFromSession(IssuerB, "u2", s)
       /\ ENABLED batchMintFromSession(IssuerB, <<"u2">>, s)
       /\ \A c \in Addrs \ {IssuerB} :
             /\ ~ENABLED mintFromSession(c, "u2", s)
             /\ ~ENABLED batchMintFromSession(c, <<"u2">>, s)

\* C21: claimFromSession needs no issuer credential.  While the ledger is not
\* paused, it goes through for every caller that holds no non-revoked token
\* of a claimable session; the token it creates has owner = caller, recorded
\* issuer = the session's issuer, source template = the session's template
\* and source session = the session; and it is refused for a caller that
\* holds a non-revoked token of the session.
C21_ClaimFromSession ==
    [][\A c \in Addrs, s \in SessionIds :
          /\ (/\ ~tokenPaused
              /\ isSessionClaimable(s)
              /\ LiveOfSession(c, s) = {}
              /\ nextTokenId <= MaxTokens) => ENABLED claimFromSession(c, s)
          /\ LiveOfSession(c, s) # {} => ~ENABLED claimFromSession(c, s)
          /\ claimFromSession(c, s) =>
                /\ tokenOwner'[nextTokenId] = c
                /\ sbtData'[nextTokenId].issuer = sessions[s].issuer
                /\ sbtData'[nextTokenId].templateId = sessions[s].templateId
                /\ sbtData'[nextTokenId].sessionId = s
                /\ ~sbtData'[nextTokenId].revoked
      ]_vars

\* u2, never an issuer, holds the token it claimed from IssuerB's session,
\* which is still claimable: the token records IssuerB, a second claim by u2
\* is refused and a first claim by u1 is open.
C21_Witness ==
    \E s \in SessionIds, k \in TokenIds :
       /\ Live(k) /\ tokenOwner[k] = "u2" /\ sbtData[k].sessionId = s
       /\ sbtData[k].issuer = IssuerB /\ sessions[s].issuer = IssuerB
       /\ ~Listed("u2")
       /\ isSessionClaimable(s)
       /\ ~ENABLED claimFromSession("u2", s)
       /\ ENABLED claimFromSession("u1", s)

\* C22: a template is created active and its active flag follows
\* Active <-> Inactive.  deactivateTemplate goes through only on an existing
\* active template and leaves it inactive; reactivateTemplate only on an
\* existing inactive template and leaves it active; updateTemplate only on an
\* active template with a non-empty name and description, and leaves the
\* flag as it was.  While the template store is not paused the owner can
\* always take the next toggle, so the cycle never ends.
C22_TemplateActiveMachine ==
    [][\A c \in Addrs, t \in 0..(MaxTemplates + 1) :
          /\ ENABLED deactivateTemplate(c, t) =>
                templateExists(t) /\ templates[t].active
          /\ deactivateTemplate(c, t) => ~templates'[t].active
          /\ ENABLED reactivateTemplate(c, t) =>
                templateExists(t) /\ ~templates[t].active
          /\ reactivateTemplate(c, t) => templates'[t].active
          /\ \A x \in AllTexts :
                /\ ENABLED updateTemplate(c, t, x[1], x[2]) =>
                      /\ templateExists(t) /\ templates[t].active
                      /\ x[1] # "" /\ x[2] # ""
                /\ updateTemplate(c, t, x[1], x[2]) =>
                      templates'[t].active = templates[t].active
                /\ createTemplate(c, x[1], x[2]) =>
                      templates'[templateIdCounter'].active
          /\ (templateExists(t) /\ ~templatePaused) =>
                IF templates[t].active
                THEN ENABLED deactivateTemplate(templates[t].issuer, t)
                ELSE ENABLED reactivateTemplate(templates[t].issuer, t)
      ]_vars

\* A deactivated template: its owner can reactivate it, and can neither
\* deactivate it again nor edit it.
C22_Witness ==
    \E t \in TemplateIds :
       /\ templateExists(t)
       /\ templates[t].name = "Course"
       /\ ~templates[t].active
       /\ ENABLED reactivateTemplate(templates[t].issuer, t)
       /\ ~ENABLED deactivateTemplate(templates[t].issuer, t)
       /\ ~ENABLED updateTemplate(templates[t].issuer, t, "Workshop", "attended")

\* C23: updateTemplate, deactivateTemplate and reactivateTemplate are refused
\* for every caller other than the template's recorded issuer, the
\* administrator and other authorized issuers included, and no step changes
\* the id or the issuer of an existing template.
C23_TemplateOwnerOnly ==
    [][\A t \in TemplateIds :
          templateExists(t) =>
             /\ \A c \in Addrs \ {templates[t].issuer} :
                   /\ ~ENABLED deactivateTemplate(c, t)
                   /\ ~ENABLED reactivateTemplate(c, t)
                   /\ \A x \in AllTexts : ~ENABLED updateTemplate(c, t, x[1], x[2])
             /\ templates'[t].templateId = templates[t].templateId
             /\ templates'[t].issuer = templates[t].issuer
      ]_vars

\* IssuerB's active template beside the administrator's inactive one, both
\* issuers authorized: each may toggle its own template only.
C23_Witness ==
    \E t, r \in TemplateIds :
       /\ templateExists(t) /\ templates[t].issuer = IssuerB /\ templates[t].active
       /\ templateExists(r) /\ templates[r].issuer = Admin /\ ~templates[r].active
       /\ isAuthorizedIssuer(IssuerB)
       /\ ENABLED deactivateTemplate(IssuerB, t)
       /\ ~ENABLED deactivateTemplate(Admin, t)
       /\ ENABLED reactivateTemplate(Admin, r)
       /\ ~ENABLED reactivateTemplate(IssuerB, r)

\* C24: createTemplate(caller, name, description) goes through only for an
\* authorized issuer with a non-empty name and description; it raises the
\* counter by one and stores, under the new counter value as id, an active
\* template owned by the caller with the given texts; no other step moves the
\* counter; and the stored templates are exactly those with ids 1..counter,
\* each recording its own id.
C24_CreateTemplate ==
    [][/\ \A c \in Addrs, x \in AllTexts :
             /\ ENABLED createTemplate(c, x[1], x[2]) =>
                   isAuthorizedIssuer(c) /\ x[1] # "" /\ x[2] # ""
             /\ createTemplate(c, x[1], x[2]) =>
                   /\ templateIdCounter' = templateIdCounter + 1
                   /\ templates'[templateIdCounter + 1] =
                         [templateId |-> templateIdCounter + 1, name |-> x[1],
                          description |-> x[2], issuer |-> c, active |-> TRUE]
       /\ templateIdCounter' # templateIdCounter =>
             \E c \in Addrs, x \in Texts : createTemplate(c, x[1], x[2])
       /\ \A t \in TemplateIds :
             /\ templateExists(t) <=> t \in 1..templateIdCounter
             /\ templateExists(t) <=> templates[t].issuer # Zero
             /\ templateExists(t) => templates[t].templateId = t
      ]_vars

\* Two templates, ids 1 and 2, created by the administrator and by IssuerB.
C24_Witness ==
    /\ templateIdCounter = 2
    /\ templates[1].templateId = 1 /\ templates[1].issuer = Admin
    /\ templates[2].templateId = 2 /\ templates[2].issuer = IssuerB

\* C25: createSession(caller, templateId, maxMints, durationInSeconds, title)
\* goes through only if the caller is an authorized issuer, the template
\* exists, is active and is owned by the caller, maxMints > 0 and
\* durationInSeconds > 0; the session it stores has currentMints = 0,
\* active = true, issuer = caller, the given maxMints and templateId and
\* endTimestamp = now + durationInSeconds; and a session comes into being in
\* no other step.
C25_CreateSession ==
    [][\A s \in SessionIds :
          /\ \A c \in Addrs, t \in 0..(MaxTemplates + 1), m \in 0..MaxMints,
                d \in 0..MaxDuration :
                /\ ENABLED createSession(c, t, m, d, "Launch", s) =>
                      /\ isAuthorizedIssuer(c)
                      /\ templateExists(t)
                      /\ templates[t].active
                      /\ templates[t].issuer = c
                      /\ m > 0
                      /\ d > 0
                /\ createSession(c, t, m, d, "Launch", s) =>
                      sessions'[s] =
                         [sessionId |-> s, templateId |-> t, maxMints |-> m,
                          currentMints |-> 0, endTimestamp |-> now + d,
                          issuer |-> c, active |-> TRUE, title |-> "Launch"]
          /\ (~sessionExists(s) /\ sessionExists(s)') =>
                \E c \in Addrs, t \in TemplateIds, m \in 1..MaxMints,
                   d \in 1..MaxDuration :
                   createSession(c, t, m, d, "Launch", s)
      ]_vars

\* IssuerB's session, created at time 1 to last 2, on its own template,
\* beside the administrator's active template: IssuerB may open no session on
\* that one, the administrator may, and nobody may with maxMints or the
\* duration zero.
C25_Witness ==
    \E s, q \in SessionIds, t \in TemplateIds :
       /\ sessionExists(s) /\ sessions[s].issuer = IssuerB
       /\ sessions[s].endTimestamp = 3 /\ sessions[s].currentMints = 0
       /\ templates[sessions[s].templateId].issuer = IssuerB
       /\ templateExists(t) /\ templates[t].issuer = Admin /\ templates[t].active
       /\ isAuthorizedIssuer(IssuerB)
       /\ ~sessionExists(q)
       /\ ~ENABLED createSession(IssuerB, t, 1, 1, "Launch", q)
       /\ ENABLED createSession(Admin, t, 1, 1, "Launch", q)
       /\ ~ENABLED createSession(Admin, t, 0, 1, "Launch", q)
       /\ ~ENABLED createSession(Admin, t, 1, 0, "Launch", q)

\* C26: endSession goes through only for the session's recorded issuer on an
\* existing session whose active flag is set, and clears the flag; no step
\* sets the flag of an existing session again; and once an existing session
\* is not claimable (ended, expired or full) it is not claimable after any
\* further step.
C26_EndSessionIrreversible ==
    [][\A s \in SessionIds :
          /\ \A c \in Addrs :
                /\ ENABLED endSession(c, s) =>
                      /\ sessionExists(s)
                      /\ sessions[s].issuer = c
                      /\ sessions[s].active
                /\ endSession(c, s) => ~sessions'[s].active
          /\ (sessionExists(s) /\ ~sessions[s].active) => ~sessions'[s].active
          /\ (sessionExists(s) /\ ~isSessionClaimable(s)) =>
                ~isSessionClaimable(s)'
      ]_vars

\* A session ended by its issuer before its expiry and with room left: only
\* the flag closes it, and nobody can end it again.
C26_Witness ==
    \E s \in SessionIds :
       /\ sessionExists(s) /\ sessions[s].issuer = IssuerB
       /\ ~sessions[s].active
       /\ now <= sessions[s].endTimestamp
       /\ sessions[s].currentMints < sessions[s].maxMints
       /\ ~isSessionClaimable(s)
       /\ \A c \in Addrs : ~ENABLED endSession(c, s)

\* C27: incrementMintCount(sessionId) is refused for every caller other than
\* the registered token contract and for an unknown session; for the
\* registered token contract on an existing session it always goes through,
\* whatever the active flag, the expiry and maxMints say, and raises
\* currentMints of that session by exactly 1, changing nothing else.
C27_IncrementMintCount ==
    [][\A c \in Addrs \cup {Ledger}, s \in SessionIds :
          /\ ENABLED callIncrementMintCount(c, s) <=>
                (c = sbtTokenContract /\ sessions[s].issuer # Zero)
          /\ callIncrementMintCount(c, s) =>
                /\ sessions'[s] =
                      [sessions[s] EXCEPT
                          !.currentMints = sessions[s].currentMints + 1]
                /\ \A q \in SessionIds \ {s} : sessions'[q] = sessions[q]
      ]_vars

\* u1 is the registered token contract, and a session that is ended, expired
\* and already past its maxMints can still be incremented by u1 and by
\* nobody else.
C27_Witness ==
    \E s \in SessionIds :
       /\ sbtTokenContract = "u1"
       /\ sessionExists(s)
       /\ ~sessions[s].active
       /\ now > sessions[s].endTimestamp
       /\ sessions[s].currentMints > sessions[s].maxMints
       /\ ENABLED callIncrementMintCount("u1", s)
       /\ \A c \in (Addrs \cup {Ledger}) \ {"u1"} :
             ~ENABLED callIncrementMintCount(c, s)
       /\ \E q \in SessionIds : ~sessionExists(q) /\ ~ENABLED callIncrementMintCount("u1", q)

\* C28: a failed call leaves nothing behind.  A batch whose mint loop fails at
\* any entry and a createSession whose id collides are refused as a whole, and
\* every step is a whole operation: the session nonce, the template counter
\* and the token counter move by exactly the number of sessions, templates
\* and tokens the step created, currentMints of a session by exactly the
\* number of tokens the step minted from it, and a claim marker is raised
\* only for a token the step created.
C28_NoPartialEffects ==
    [][LET newTok == {k \in TokenIds : tokenOwner[k] = Zero /\ tokenOwner'[k] # Zero}
           newSes == {s \in SessionIds :
                         sessions[s].issuer = Zero /\ sessions'[s].issuer # Zero}
           newTpl == {t \in TemplateIds :
                         templates[t].issuer = Zero /\ templates'[t].issuer # Zero}
       IN  /\ \A c \in Callers, r \in Batches, s \in SessionIds :
                 (sessionExists(s)
                    /\ ~BatchMintLoop(LedgerState, r, 1, c, s).ok) =>
                    ~ENABLED batchMintFromSession(c, r, s)
           /\ \A c \in Callers, t \in TemplateIds, m \in 1..MaxMints,
                 s \in SessionIds :
                 sessionExists(s) => ~ENABLED createSession(c, t, m, 1, "Launch", s)
           /\ sessionNonce' = sessionNonce + Cardinality(newSes)
           /\ templateIdCounter' = templateIdCounter + Cardinality(newTpl)
           /\ nextTokenId' = nextTokenId + Cardinality(newTok)
           /\ newTok = nextTokenId..(nextTokenId' - 1)
           /\ \A s \in SessionIds \ newSes :
                 sessions'[s].currentMints =
                    sessions[s].currentMints
                    + Cardinality({k \in newTok : sbtData'[k].sessionId = s})
           /\ \A a \in Addrs, s \in SessionIds :
                 (~hasTokenFromSession[a][s] /\ hasTokenFromSession'[a][s]) =>
                    \E k \in newTok :
                       tokenOwner'[k] = a /\ sbtData'[k].sessionId = s
           /\ \A a \in Addrs, t \in TemplateIds :
                 (~hasTokenFromTemplate[a][t] /\ hasTokenFromTemplate'[a][t]) =>
                    \E k \in newTok :
                       tokenOwner'[k] = a /\ sbtData'[k].templateId = t
      ]_vars

\* One session exists with room for two: a batch naming u2 twice fails at its
\* second entry and is refused although u2 alone would be admitted, and a
\* createSession landing on the existing id is refused although the other id
\* is free.
C28_Witness ==
    \E s, q \in SessionIds :
       /\ sessionExists(s) /\ ~sessionExists(q)
       /\ sessions[s].currentMints + 2 <= sessions[s].maxMints
       /\ nextTokenId + 1 <= MaxTokens
       /\ ENABLED batchMintFromSession(Admin, <<"u2">>, s)
       /\ ~BatchMintLoop(LedgerState, <<"u2", "u2">>, 1, Admin, s).ok
       /\ ~ENABLED batchMintFromSession(Admin, <<"u2", "u2">>, s)
       /\ ENABLED createSession(Admin, sessions[s].templateId, 1, 1, "Launch", q)
       /\ ~ENABLED createSession(Admin, sessions[s].templateId, 1, 1, "Launch", s)

\* C29: getAllIssuers returns every authorized identity exactly once and no
\* identity that is not authorized, and getAuthorizedIssuerCount is the number
\* of authorized identities, after any sequence of addIssuer, removeIssuer
\* and updateIssuer.
C29_IssuerEnumeration ==
    LET all == getAllIssuers
    IN  /\ \A a \in Addrs \cup {Zero} :
              isAuthorizedIssuer(a) <=> \E i \in 1..Len(all) : all[i] = a
        /\ \A i, j \in 1..Len(all) : all[i] = all[j] => i = j
        /\ getAuthorizedIssuerCount =
              Cardinality({a \in Addrs \cup {Zero} : isAuthorizedIssuer(a)})
        /\ Len(all) = getAuthorizedIssuerCount

\* Three identities were added and the one in the middle of the list was
\* removed: the enumeration skips it.
C29_Witness ==
    /\ issuerAddresses = <<Admin, "u1", IssuerB, "u2">>
    /\ ~isAuthorizedIssuer("u1")
    /\ getAllIssuers = <<Admin, IssuerB, "u2">>
    /\ getAuthorizedIssuerCount = 3

\* C30: token ids are sequential from 1.  The existing token ids are exactly
\* 1..nextTokenId-1; a single mint or a claim gives its token the current
\* nextTokenId and raises it by 1; a batch gives its i-th recipient the id
\* nextTokenId + i - 1 and raises it by the length of the list; and
\* nextTokenId moves in no other step.
C30_TokenIdsSequential ==
    [][/\ nextTokenId >= 1
       /\ {k \in TokenIds : Exists(k)} = 1..(nextTokenId - 1)
       /\ \A c \in Callers :
             /\ \A to \in Recipients, t \in TemplateIds :
                   mintFromTemplate(c, to, t) =>
                      tokenOwner'[nextTokenId] = to /\ nextTokenId' = nextTokenId + 1
             /\ \A to \in Recipients, s \in SessionIds :
                   mintFromSession(c, to, s) =>
                      tokenOwner'[nextTokenId] = to /\ nextTokenId' = nextTokenId + 1
             /\ \A s \in SessionIds :
                   claimFromSession(c, s) =>
                      tokenOwner'[nextTokenId] = c /\ nextTokenId' = nextTokenId + 1
             /\ \A r \in Batches, s \in SessionIds :
                   batchMintFromSession(c, r, s) =>
                      /\ nextTokenId' = nextTokenId + Len(r)
                      /\ \A i \in 1..Len(r) : tokenOwner'[nextTokenId + i - 1] = r[i]
       /\ nextTokenId' # nextTokenId =>
             \E c \in Callers :
                \/ \E to \in Recipients, t \in TemplateIds : mintFromTemplate(c, to, t)
                \/ \E to \in Recipients, s \in SessionIds : mintFromSession(c, to, s)
                \/ \E s \in SessionIds : claimFromSession(c, s)
                \/ \E r \in Batches, s \in SessionIds : batchMintFromSession(c, r, s)
      ]_vars

\* Token 1 from a single mint, then tokens 2 and 3 from one batch in list
\* order.
C30_Witness ==
    /\ nextTokenId = 4
    /\ sbtData[1].sessionId = NoSession
    /\ \E s \in SessionIds :
          /\ sbtData[2].sessionId = s /\ sbtData[3].sessionId = s
          /\ sessions[s].currentMints = 2
    /\ tokenOwner[2] = "u2" /\ tokenOwner[3] = "u1"


\* ------------------------------------------------------------------ C31
UriLive(k) == uriOwners[k] # Zero /\ ~tokenRevoked[k]
UriLiveOf(o, i) ==
    {k \in UriTokenIds : UriLive(k) /\ uriOwners[k] = o /\ tokenIssuer[k] = i}

\* C31: in the URI-based ledger an owner holds at most one non-revoked token
\* per issuer, hasTokenFromIssuer[o][i] is true exactly when that token
\* exists, a mint by i to o (single or first of a batch) fails while it is
\* true, and succeeds for an authorized issuer while it is false (another
\* issuer's token, or a revoked one, does not stand in the way).
C31_OneLiveTokenPerOwnerIssuer ==
    \A o \in Addrs, i \in Addrs :
        /\ Cardinality(UriLiveOf(o, i)) <= 1
        /\ hasTokenFromIssuer[o][i] <=> UriLiveOf(o, i) # {}
        /\ hasTokenFromIssuer[o][i] =>
              /\ ~ENABLED mintSBT(i, o, Uri)
              /\ ~ENABLED batchMintSBT(i, <<o>>, <<Uri>>)
        /\ (/\ ~hasTokenFromIssuer[o][i]
            /\ isAuthorizedIssuer(i)
            /\ ~uriPaused
            /\ uriNextTokenId <= MaxUriTokens)
              => /\ ENABLED mintSBT(i, o, Uri)
                 /\ ENABLED batchMintSBT(i, <<o>>, <<Uri>>)

\* u1 holds a revoked token of Admin, a live token of IssuerB and a second,
\* live token of Admin minted after the revocation.
C31_Witness ==
    /\ uriNextTokenId = 4
    /\ uriOwners[1] = "u1" /\ tokenIssuer[1] = Admin /\ tokenRevoked[1]
    /\ uriOwners[2] = "u1" /\ tokenIssuer[2] = IssuerB /\ ~tokenRevoked[2]
    /\ uriOwners[3] = "u1" /\ tokenIssuer[3] = Admin /\ ~tokenRevoked[3]
    /\ hasTokenFromIssuer["u1"][Admin]
    /\ hasTokenFromIssuer["u1"][IssuerB]


C33_TemplateMarkerExact ==
    \A o \in Addrs, t \in TemplateIds :
        hasTokenFromTemplate[o][t] <=> LiveOfTemplate(o, t) # {}


\* ------------------------------------------------------------------ C34
\* C34: in every reachable state hasTokenFromSession[o][s] is true exactly
\* when o owns a non-revoked token whose source session is s.
C34_SessionMarkerExact ==
    \A o \in Addrs, s \in SessionIds :
        hasTokenFromSession[o][s] <=> LiveOfSession(o, s) # {}

\* u1 claimed from session 1, was revoked and claimed again; u2 holds a
\* token minted from the template directly, which marks no session.
C34_Witness ==
    /\ tokenOwner[1] = "u1" /\ sbtData[1].sessionId = 1 /\ sbtData[1].revoked
    /\ tokenOwner[2] = "u1" /\ sbtData[2].sessionId = 1 /\ ~sbtData[2].revoked
    /\ tokenOwner[3] = "u2" /\ sbtData[3].sessionId = NoSession
    /\ hasTokenFromSession["u1"][1]
    /\ \A s \in SessionIds : ~hasTokenFromSession["u2"][s]


C36_SessionMintsIgnoreTemplateFlag ==
    /\ [](\A t \in TemplateIds :
            templateExists(t) =>
              LET i == templates[t].issuer
              IN  /\ ~templates[t].active =>
                        /\ \A c \in Addrs, to \in Recipients :
                              ~ENABLED mintFromTemplate(c, to, t)
                        /\ \A c \in Addrs, m \in 1..MaxMints, s \in SessionIds :
                              ~ENABLED createSession(c, t, m, 1, "Launch", s)
                  /\ (/\ templates[t].active
                      /\ isAuthorizedIssuer(i)) =>
                        /\ \A to \in Users :
                              (/\ ~tokenPaused
                               /\ ~hasTokenFromTemplate[to][t]
                               /\ nextTokenId <= MaxTokens)
                                 => ENABLED mintFromTemplate(i, to, t)
                        /\ \A s \in SessionIds :
                              (~sessionPaused /\ ~sessionExists(s))
                                 => ENABLED createSession(i, t, 1, 1, "Launch", s)
                  /\ \A s \in SessionIds, o \in Users :
                        (/\ ~templates[t].active
                         /\ sessions[s].templateId = t
                         /\ sessions[s].active
                         /\ now <= sessions[s].endTimestamp
                         /\ sessions[s].currentMints < sessions[s].maxMints
                         /\ ~hasTokenFromSession[o][s]
                         /\ ~tokenPaused
                         /\ nextTokenId <= MaxTokens) =>
                           /\ ENABLED claimFromSession(o, s)
                           /\ isAuthorizedIssuer(sessions[s].issuer) =>
                                 /\ ENABLED mintFromSession(sessions[s].issuer, o, s)
                                 /\ ENABLED batchMintFromSession(
                                               sessions[s].issuer, <<o>>, s))
    /\ [][\A k \in TokenIds :
            (/\ tokenOwner[k] = Zero
             /\ tokenOwner'[k] # Zero
             /\ sbtData'[k].sessionId # NoSession) =>
               LET t == sessions[sbtData'[k].sessionId].templateId
               IN  /\ sbtData'[k].templateId = t
                   /\ sbtData'[k].name = templates[t].name
                   /\ sbtData'[k].description = templates[t].description
         ]_vars

\* Template 1 was renamed and is deactivated; its session is still claimable
\* and has issued a token under the new name; u2 can still claim.
C36_Witness ==
    /\ templateExists(1) /\ ~templates[1].active
    /\ templates[1].name = "Course"
    /\ isSessionClaimable(1) /\ sessions[1].templateId = 1
    /\ tokenOwner[1] = "u1" /\ sbtData[1].sessionId = 1
    /\ sbtData[1].name = "Course"
    /\ ENABLED claimFromSession("u2", 1)
    /\ ~ENABLED mintFromTemplate(Admin, "u2", 1)


\* ------------------------------------------------------------------ C37
\* C37: for an address i that is not an authorized issuer (one that was
\* removed, in particular) createTemplate, createSession, mintFromTemplate,
\* mintFromSession and batchMintFromSession called by i are refused; a
\* claimable session of i still serves claimFromSession, and the token
\* records i as its issuer; i can still end its active sessions, update and
\* deactivate its active templates, reactivate its deactivated ones and
\* revoke the non-revoked tokens it issued.
C37_DeauthorizedIssuer ==
    /\ [](\A i \in Addrs :
            ~isAuthorizedIssuer(i) =>
              /\ \A x \in Texts : ~ENABLED createTemplate(i, x[1], x[2])
              /\ \A t \in TemplateIds, m \in 1..MaxMints, s \in SessionIds :
                    ~ENABLED createSession(i, t, m, 1, "Launch", s)
              /\ \A to \in Recipients, t \in TemplateIds :
                    ~ENABLED mintFromTemplate(i, to, t)
              /\ \A to \in Recipients, s \in SessionIds :
                    ~ENABLED mintFromSession(i, to, s)
              /\ \A r \in Batches, s \in SessionIds :
                    ~ENABLED batchMintFromSession(i, r, s)
              /\ \A s \in SessionIds :
                    sessions[s].issuer = i =>
                      /\ \A o \in Users :
                            (/\ isSessionClaimable(s)
                             /\ ~hasTokenFromSession[o][s]
                             /\ ~tokenPaused
                             /\ nextTokenId <= MaxTokens)
                               => ENABLED claimFromSession(o, s)
                      /\ (sessions[s].active /\ ~sessionPaused)
                            => ENABLED endSession(i, s)
              /\ \A t \in TemplateIds :
                    (templates[t].issuer = i /\ ~templatePaused) =>
                      IF templates[t].active
                      THEN /\ ENABLED updateTemplate(i, t, "Course", "passed")
                           /\ ENABLED deactivateTemplate(i, t)
                      ELSE ENABLED reactivateTemplate(i, t)
              /\ \A k \in TokenIds :
                    (Live(k) /\ sbtData[k].issuer = i /\ ~tokenPaused)
                       => ENABLED revokeSBT(i, k))
    /\ [][\A o \in Addrs, s \in SessionIds :
            claimFromSession(o, s) =>
               sbtData'[nextTokenId].issuer = sessions[s].issuer
         ]_vars

\* IssuerB was removed after it created a template and a session.  The
\* session is still claimable and u1 holds a token of it that records
\* IssuerB; the template is deactivated.
C37_Witness ==
    /\ Listed(IssuerB) /\ ~isAuthorizedIssuer(IssuerB)
    /\ templates[1].issuer = IssuerB /\ ~templates[1].active
    /\ sessions[1].issuer = IssuerB /\ isSessionClaimable(1)
    /\ tokenOwner[1] = "u1" /\ sbtData[1].issuer = IssuerB
    /\ sbtData[1].sessionId = 1 /\ ~sbtData[1].revoked
    /\ ENABLED claimFromSession("u2", 1)
    /\ ENABLED endSession(IssuerB, 1)
    /\ ENABLED reactivateTemplate(IssuerB, 1)
    /\ ENABLED revokeSBT(IssuerB, 1)


\* ------------------------------------------------------------------ C38
\* The tokens created from session s: those whose data names s and the token
\* of the open frame, created but not yet described, when the frame is on s.
CreatedFrom(s) ==
    {k \in TokenIds :
        /\ tokenOwner[k] # Zero
        /\ \/ sbtData[k].sessionId = s
           \/ ~TopLevel /\ frame.sessionId = s /\ frame.tokenId = k}

\* Some mint call can start, sent by anybody.
SomeMintCanStart ==
    \E c \in Addrs :
       \/ \E to \in Recipients, t \in TemplateIds :
             \/ ENABLED mintFromTemplate(c, to, t)
             \/ ENABLED mintFromTemplate_Enter(c, to, t)
       \/ \E to \in Recipients, s \in SessionIds :
             \/ ENABLED mintFromSession(c, to, s)
             \/ ENABLED mintFromSession_Enter(c, to, s)
       \/ \E s \in SessionIds :
             \/ ENABLED claimFromSession(c, s)
             \/ ENABLED claimFromSession_Enter(c, s)
       \/ \E r \in Batches, s \in SessionIds :
             \/ ENABLED batchMintFromSession(c, r, s)
             \/ ENABLED batchMintFromSession_Enter(c, r, s)

\* C38: the guard is held exactly while a mint is between its checks and its
\* last write (the recipient's hook included); while it is held no
\* mintFromTemplate, mintFromSession, claimFromSession or
\* batchMintFromSession can start, whoever sends it; so whenever a mint can
\* start, the currentMints of every session counts every token created from
\* it.
C38_NoMintInsideMint ==
    /\ _status = ENTERED <=> ~TopLevel
    /\ ~TopLevel => ~SomeMintCanStart
    /\ SomeMintCanStart =>
          \A s \in SessionIds :
             sessions[s].currentMints = Cardinality(CreatedFrom(s))

\* Inside the hook of u2 during mintFromSession: the token exists, its data,
\* the claim marker and currentMints are not written yet, the session still
\* reads as claimable, and a claim by u2 is refused.
C38_Witness ==
    /\ ~TopLevel
    /\ frame.fn = "mintFromSession" /\ frame.to = "u2"
    /\ _status = ENTERED
    /\ tokenOwner[frame.tokenId] = "u2"
    /\ sbtData[frame.tokenId] = NoSBTData
    /\ isSessionClaimable(frame.sessionId)
    /\ sessions[frame.sessionId].currentMints = 0
    /\ ~hasTokenFromSession["u2"][frame.sessionId]
    /\ ~ENABLED claimFromSession("u2", frame.sessionId)


\* ------------------------------------------------------------------ C39
\* C39: a revoked token stays revoked: in every step from a state where it
\* is revoked it is still revoked afterwards and keeps its owner, issuer,
\* source template and source session; revokeSBT on it is refused for every
\* caller; and getUserSBTs of its owner still lists it, whatever was minted
\* to that owner since.
C39_RevokedForGood ==
    /\ [](\A k \in TokenIds :
            sbtData[k].revoked =>
              /\ \A c \in Addrs : ~ENABLED revokeSBT(c, k)
              /\ \E n \in 1..Len(getUserSBTs(tokenOwner[k])) :
                    getUserSBTs(tokenOwner[k])[n] = k)
    /\ [][\A k \in TokenIds :
            sbtData[k].revoked =>
              /\ sbtData'[k].revoked
              /\ tokenOwner'[k] = tokenOwner[k]
              /\ sbtData'[k].issuer = sbtData[k].issuer
              /\ sbtData'[k].templateId = sbtData[k].templateId
              /\ sbtData'[k].sessionId = sbtData[k].sessionId
         ]_vars

\* u1's token of session 1 was revoked and u1 claimed a replacement: the
\* enumeration of u1 lists both, the revoked one first.
C39_Witness ==
    /\ tokenOwner[1] = "u1" /\ sbtData[1].revoked /\ sbtData[1].sessionId = 1
    /\ tokenOwner[2] = "u2"
    /\ tokenOwner[3] = "u1" /\ ~sbtData[3].revoked /\ sbtData[3].sessionId = 1
    /\ getUserSBTs("u1") = <<1, 3>>
    /\ getUserSBTs("u2") = <<2>>


\* ------------------------------------------------------------------ C40
\* C40: createSession never overwrites a session.  It is refused, for every
\* caller and arguments, when the generated id is the id of an existing
\* session; a call that goes through stores its session under an id that
\* had none, raises sessionNonce by one and leaves every other session as it
\* was; in every step an existing session keeps its id, template, capacity,
\* expiry, issuer and title, and sessionNonce moves only when a session comes
\* into being.
C40_CreateSessionNeverOverwrites ==
    [][/\ \A s \in SessionIds :
             /\ sessionExists(s) =>
                   /\ \A c \in Addrs, t \in TemplateIds, m \in 1..MaxMints :
                         ~ENABLED createSession(c, t, m, 1, "Launch", s)
                   /\ sessions'[s].sessionId = sessions[s].sessionId
                   /\ sessions'[s].templateId = sessions[s].templateId
                   /\ sessions'[s].maxMints = sessions[s].maxMints
                   /\ sessions'[s].endTimestamp = sessions[s].endTimestamp
                   /\ sessions'[s].issuer = sessions[s].issuer
                   /\ sessions'[s].title = sessions[s].title
                   /\ sessions'[s].currentMints >= sessions[s].currentMints
             /\ \A c \in Addrs, t \in TemplateIds, m \in 1..MaxMints :
                   createSession(c, t, m, 1, "Launch", s) =>
                      /\ ~sessionExists(s)
                      /\ sessionExists(s)'
                      /\ sessionNonce' = sessionNonce + 1
                      /\ \A s2 \in SessionIds \ {s} : sessions'[s2] = sessions[s2]
       /\ sessionNonce' =
             sessionNonce
               + Cardinality({s \in SessionIds :
                                 ~sessionExists(s) /\ sessionExists(s)'})
      ]_vars

\* Two sessions exist, the first has issued a token; the template is active
\* and its issuer authorized, and a createSession that generates either id
\* is refused.
C40_Witness ==
    /\ sessionNonce = 2
    /\ sessionExists(1) /\ sessionExists(2)
    /\ sessions[1].currentMints = 1
    /\ templates[1].active /\ isAuthorizedIssuer(templates[1].issuer)
    /\ \A s \in SessionIds :
          ~ENABLED createSession(templates[1].issuer, 1, 1, 1, "Launch", s)

====
